---- MODULE Spec2Model ----
(***************************************************************************)
(* Model of the orchestration core of AI-Agent-Studio                      *)
(* (backend/app/services/team_manager.py): the graph resolver              *)
(* (TeamManager.build), the execution units (AgentUnit, ManagerUnit) and   *)
(* the orchestrator's event stream (TeamManager.run_stream).               *)
(***************************************************************************)
EXTENDS Integers, Sequences, FiniteSets, TLC

VARIABLES
    graph,      \* the project graph handed to TeamManager.__init__
    env,        \* behaviour of the collaborators (factories, agent streams)
    tm,         \* the TeamManager instance's fields
    calls,      \* log of the build() calls made so far and their outcomes
    run,        \* the run_stream call in flight: target, status
    tasks,      \* asyncio tasks of the run: generator stacks
    out,        \* events the consumer has received from run_stream
    produced    \* origin stamps of every event created so far (history)

vars == <<graph, env, tm, calls, run, tasks, out, produced>>

----------------------------------------------------------------------------
(* Bounds *)

MaxEdges == 3       \* longest edge list of a generated graph
MaxScript == 2      \* most updates an agent capability's stream yields
MaxBuildCalls == 2  \* explicit build() calls on one instance

----------------------------------------------------------------------------
(* Values *)

None == "<None>"            \* Python None / absent
NoUnit == [id |-> None]     \* Optional[...Unit] = None
NoErr == [kind |-> "none", path |-> <<>>]

Last(s) == s[Len(s)]

Range(s) == {s[i] : i \in 1..Len(s)}

RECURSIVE SeqOfSet(_)
SeqOfSet(S) == IF S = {} THEN <<>>
               ELSE LET x == CHOOSE y \in S : TRUE IN <<x>> \o SeqOfSet(S \ {x})

\* str.lower() on the strategy strings that occur
Lower(s) ==
    CASE s = "Concurrent" -> "concurrent"
      [] s = "Sequential" -> "sequential"
      [] OTHER -> s

----------------------------------------------------------------------------
(* TeamManager.__init__ *)

NodeIdsOfKind(g, kind) ==
    LET sel == SelectSeq(g.nodes, LAMBDA n : n.kind = kind)
    IN  [i \in 1..Len(sel) |-> sel[i].id]

NodesMap(g) ==
    [id \in {g.nodes[i].id : i \in 1..Len(g.nodes)} |->
        LET last == CHOOSE i \in 1..Len(g.nodes) :
                        /\ g.nodes[i].id = id
                        /\ \A j \in 1..Len(g.nodes) : g.nodes[j].id = id => j <= i
        IN  g.nodes[last]]

DirectorNode(g) ==
    LET sel == SelectSeq(g.nodes, LAMBDA n : n.kind = "teamDirector")
    IN  IF Len(sel) = 0 THEN NoUnit ELSE sel[1]

_build_incoming_index(g) ==
    LET E == SelectSeq(g.edges, LAMBDA e : e.source # "" /\ e.target # "")
    IN  [t \in {E[i].target : i \in 1..Len(E)} |->
            LET into == SelectSeq(E, LAMBDA e : e.target = t)
            IN  [i \in 1..Len(into) |-> into[i].source]]

TeamManagerInit(g) ==
    [ nodes            |-> NodesMap(g),
      edges            |-> g.edges,
      settings         |-> g.settings,
      agent_node_ids   |-> NodeIdsOfKind(g, "agent"),
      manager_node_ids |-> NodeIdsOfKind(g, "teamManager"),
      tool_node_ids    |-> NodeIdsOfKind(g, "tool"),
      director_node    |-> DirectorNode(g),
      tools            |-> {},
      agent_units      |-> <<>>,
      manager_units    |-> <<>>,
      execution_units  |-> <<>>,
      director_unit    |-> NoUnit,
      root_manager_ids |-> <<>>,
      incoming_index   |-> _build_incoming_index(g),
      built            |-> FALSE,
      toolCalls        |-> <<>>,
      agentCalls       |-> <<>> ]

----------------------------------------------------------------------------
(* ExecutionUnit / AgentUnit / ManagerUnit constructors *)

ExecutionUnitLabel(node) ==
    IF node.label # None THEN node.label
    ELSE IF node.name # None THEN node.name
    ELSE node.id

AgentUnit(node, agent_tools) ==
    [ id |-> node.id, kind |-> "agent", label |-> ExecutionUnitLabel(node),
      children |-> <<>>, strategy |-> None, tools |-> agent_tools ]

\* data.get("strategy", "sequential").lower(): a null strategy has no lower()
ManagerUnitRaises(node) == node.strategy = None

ManagerUnit(node, children, kind) ==
    [ id |-> node.id, kind |-> kind, label |-> ExecutionUnitLabel(node),
      children |-> children, strategy |-> Lower(node.strategy), tools |-> <<>> ]

----------------------------------------------------------------------------
(* Graph resolver *)

_resolve_children(st, source_id, allowed_kinds) ==
    LET hit(e) == /\ e.source = source_id
                  /\ e.target # ""
                  /\ e.target \in DOMAIN st.nodes
                  /\ st.nodes[e.target].kind \in allowed_kinds
        sel == SelectSeq(st.edges, hit)
    IN  [i \in 1..Len(sel) |-> sel[i].target]

\* ToolFactory.build_tool as seen by the resolver
build_tool(e, node_id) == e.tool[node_id]

\* AgentFactory.create_agent as seen by the resolver
create_agent(e, node_id) == e.agent[node_id]

RECURSIVE BuildToolsFrom(_, _, _)
BuildToolsFrom(st, e, i) ==
    IF i > Len(st.tool_node_ids) THEN st
    ELSE LET id == st.tool_node_ids[i]
             st1 == [st EXCEPT !.toolCalls = Append(@, id)]
             st2 == IF build_tool(e, id) = "ok"
                    THEN [st1 EXCEPT !.tools = @ \cup {id}]
                    ELSE st1
         IN  BuildToolsFrom(st2, e, i + 1)

_build_tools(st, e) == BuildToolsFrom(st, e, 1)

_build_agent_unit(st, e, agent_id) ==
    IF agent_id \in DOMAIN st.agent_units
    THEN [st |-> st, unit |-> st.agent_units[agent_id], err |-> NoErr]
    ELSE IF agent_id \notin DOMAIN st.nodes
    THEN [st |-> st, unit |-> NoUnit, err |-> NoErr]
    ELSE LET agent_tools ==
                 SelectSeq(_resolve_children(st, agent_id, {"tool"}),
                           LAMBDA t : t \in st.tools)
             Register(st1, unit) ==
                 [st |-> [st1 EXCEPT
                             !.agent_units = (agent_id :> unit) @@ @,
                             !.execution_units = (agent_id :> unit) @@ @],
                  unit |-> unit, err |-> NoErr]
             Create(st1) ==
                 IF create_agent(e, agent_id) = "raise"
                 THEN [st |-> st1, unit |-> NoUnit, err |-> NoErr]
                 ELSE Register(st1, AgentUnit(st.nodes[agent_id], agent_tools))
         IN  Create([st EXCEPT !.agentCalls = Append(@, agent_id)])

RECURSIVE _ensure_manager_unit(_, _, _, _), EnsureChildren(_, _, _, _, _, _)

\* the loop over the resolved children, lines 388-401
EnsureChildren(st, e, child_ids, i, stack, child_units) ==
    IF i > Len(child_ids)
    THEN [st |-> st, units |-> child_units, err |-> NoErr]
    ELSE LET child_id == child_ids[i]
             Collect(r) ==
                 IF r.err.kind # "none"
                 THEN [st |-> r.st, units |-> child_units, err |-> r.err]
                 ELSE EnsureChildren(r.st, e, child_ids, i + 1, stack,
                          IF r.unit.id # None THEN Append(child_units, child_id)
                                             ELSE child_units)
         IN  IF child_id \notin DOMAIN st.nodes
             THEN EnsureChildren(st, e, child_ids, i + 1, stack, child_units)
             ELSE IF st.nodes[child_id].kind = "agent"
             THEN Collect(_build_agent_unit(st, e, child_id))
             ELSE IF st.nodes[child_id].kind = "teamManager"
             THEN Collect(_ensure_manager_unit(st, e, child_id, stack))
             ELSE EnsureChildren(st, e, child_ids, i + 1, stack, child_units)

_ensure_manager_unit(st, e, manager_id, stack) ==
    IF manager_id \in DOMAIN st.manager_units
    THEN [st |-> st, unit |-> st.manager_units[manager_id], err |-> NoErr]
    ELSE IF manager_id \notin DOMAIN st.nodes
    THEN [st |-> st, unit |-> NoUnit, err |-> NoErr]
    ELSE IF manager_id \in Range(stack)
    THEN [st |-> st, unit |-> NoUnit,
          err |-> [kind |-> "cycle", path |-> Append(stack, manager_id)]]
    ELSE LET Register(st1, unit) ==
                 [st |-> [st1 EXCEPT
                             !.manager_units = (manager_id :> unit) @@ @,
                             !.execution_units = (manager_id :> unit) @@ @],
                  unit |-> unit, err |-> NoErr]
             Construct(r) ==
                 IF r.err.kind # "none"
                 THEN [st |-> r.st, unit |-> NoUnit, err |-> r.err]
                 ELSE IF ManagerUnitRaises(st.nodes[manager_id])
                 THEN [st |-> r.st, unit |-> NoUnit,
                       err |-> [kind |-> "attribute", path |-> <<manager_id>>]]
                 ELSE Register(r.st, ManagerUnit(st.nodes[manager_id], r.units,
                                                 "teamManager"))
         IN  Construct(EnsureChildren(st, e,
                 _resolve_children(st, manager_id, {"agent", "teamManager"}),
                 1, Append(stack, manager_id), <<>>))

\* lines 410-416 with every incoming edge counted as a manager parent
_compute_root_manager_ids_AnyParent(st) ==
    SelectSeq(st.manager_node_ids, LAMBDA m : m \notin DOMAIN st.incoming_index)

_compute_root_manager_ids(st) ==
    LET hasManagerParent(m) ==
            /\ m \in DOMAIN st.incoming_index
            /\ \E p \in Range(st.incoming_index[m]) :
                   p \in Range(st.manager_node_ids)
    IN  SelectSeq(st.manager_node_ids, LAMBDA m : ~hasManagerParent(m))

\* the synthesized director node, lines 423-434
SynthesizedDirectorNode(st) ==
    [ id |-> "teamDirector", kind |-> "teamDirector",
      label |-> IF st.settings.teamDirectorLabel # None
                THEN st.settings.teamDirectorLabel ELSE "Team Director",
      name |-> None,
      strategy |-> IF st.settings.teamDirectorStrategy # None
                   THEN st.settings.teamDirectorStrategy
                   ELSE IF st.settings.teamStrategy # None
                   THEN st.settings.teamStrategy
                   ELSE "sequential" ]

\* the fallback of lines 441-447
DirectorFallbackIds(st) ==
    IF Len(st.root_manager_ids) > 0 THEN st.root_manager_ids
    ELSE IF Len(st.manager_node_ids) > 0 THEN st.manager_node_ids
    ELSE st.agent_node_ids

RECURSIVE DirectorChildren(_, _, _, _, _)
\* the loop of lines 449-461
DirectorChildren(st, e, child_ids, i, children) ==
    IF i > Len(child_ids)
    THEN [st |-> st, units |-> children, err |-> NoErr]
    ELSE LET child_id == child_ids[i]
             Collect(r) ==
                 IF r.err.kind # "none"
                 THEN [st |-> r.st, units |-> children, err |-> r.err]
                 ELSE DirectorChildren(r.st, e, child_ids, i + 1,
                          IF r.unit.id # None THEN Append(children, child_id)
                                              ELSE children)
         IN  IF child_id \in DOMAIN st.execution_units
             THEN DirectorChildren(st, e, child_ids, i + 1, Append(children, child_id))
             ELSE IF child_id \notin DOMAIN st.nodes
             THEN DirectorChildren(st, e, child_ids, i + 1, children)
             ELSE IF st.nodes[child_id].kind = "agent"
             THEN Collect(_build_agent_unit(st, e, child_id))
             ELSE IF st.nodes[child_id].kind = "teamManager"
             THEN Collect(_ensure_manager_unit(st, e, child_id, <<>>))
             ELSE DirectorChildren(st, e, child_ids, i + 1, children)

_build_director_unit(st, e) ==
    LET Register(st1, unit) ==
            [st |-> [st1 EXCEPT !.execution_units = (unit.id :> unit) @@ @],
             unit |-> unit, err |-> NoErr]
        Construct(node, r) ==
            IF r.err.kind # "none"
            THEN [st |-> r.st, unit |-> NoUnit, err |-> r.err]
            ELSE IF Len(r.units) = 0
            THEN [st |-> r.st, unit |-> NoUnit, err |-> NoErr]
            ELSE IF ManagerUnitRaises(node)
            THEN [st |-> r.st, unit |-> NoUnit,
                  err |-> [kind |-> "attribute", path |-> <<node.id>>]]
            ELSE Register(r.st, ManagerUnit(node, r.units, node.kind))
        Children(st1, node, declared) ==
            Construct(node,
                DirectorChildren(st1, e,
                    IF Len(declared) = 0 THEN DirectorFallbackIds(st1) ELSE declared,
                    1, <<>>))
        Resolve(st1, node) ==
            Children(st1, node,
                     _resolve_children(st1, node.id, {"teamManager", "agent"}))
        Synthesize(node) ==
            Resolve([st EXCEPT !.nodes = (node.id :> node) @@ @], node)
    IN  IF st.director_node.id = None
        THEN Synthesize(SynthesizedDirectorNode(st))
        ELSE Resolve(st, st.director_node)

----------------------------------------------------------------------------
(* TeamManager.build *)

BuildSummary(st) ==
    [ agents |-> Cardinality(DOMAIN st.agent_units),
      team_managers |-> Cardinality(DOMAIN st.manager_units),
      tools |-> Cardinality(st.tools),
      director |-> st.director_unit.id # None ]

RECURSIVE BuildAgentsFrom(_, _, _), BuildManagersFrom(_, _, _)
\* for agent_id in self.agent_node_ids, lines 227-228
BuildAgentsFrom(st, e, i) ==
    IF i > Len(st.agent_node_ids) THEN st
    ELSE BuildAgentsFrom(_build_agent_unit(st, e, st.agent_node_ids[i]).st, e, i + 1)

\* for manager_id in self.manager_node_ids, lines 230-231
BuildManagersFrom(st, e, i) ==
    IF i > Len(st.manager_node_ids) THEN [st |-> st, err |-> NoErr]
    ELSE LET Continue(r) ==
                 IF r.err.kind # "none" THEN [st |-> r.st, err |-> r.err]
                 ELSE BuildManagersFrom(r.st, e, i + 1)
         IN  Continue(_ensure_manager_unit(st, e, st.manager_node_ids[i], <<>>))

\* an exception leaving build() with the built flag set all the same
BuildRaised_MarksBuilt(st, err) ==
    [st |-> [st EXCEPT !.built = TRUE], summary |-> None, err |-> err]

\* an exception of lines 231 or 234 leaves build() before line 236: what was
\* constructed so far stays in the caches, the built flag stays unset
BuildRaised(st, err) == [st |-> st, summary |-> None, err |-> err]

\* lines 230-243: managers, roots, director, built flag, summary
BuildManagersAndDirector(st, e) ==
    LET Finish(st4) ==
            [st |-> st4, summary |-> BuildSummary(st4), err |-> NoErr]
        Director(rd) ==
            IF rd.err.kind # "none"
            THEN BuildRaised(rd.st, rd.err)
            ELSE Finish([rd.st EXCEPT !.director_unit = rd.unit, !.built = TRUE])
        Roots(st2) ==
            Director(_build_director_unit(
                [st2 EXCEPT !.root_manager_ids = _compute_root_manager_ids(st2)], e))
        Managers(rm) ==
            IF rm.err.kind # "none"
            THEN BuildRaised(rm.st, rm.err)
            ELSE Roots(rm.st)
    IN  Managers(BuildManagersFrom(st, e, 1))

\* lines 225-243: tools, agents, then the rest
BuildUnits(st, e) ==
    BuildManagersAndDirector(BuildAgentsFrom(_build_tools(st, e), e, 1), e)

\* build() without the built-flag check of lines 217-223
build_Rebuilds(st, e) == BuildUnits(st, e)

build(st, e) ==
    IF st.built
    THEN [st |-> st, summary |-> BuildSummary(st), err |-> NoErr]
    ELSE BuildUnits(st, e)

----------------------------------------------------------------------------
(* Events *)

NoContext ==
    [ unitId |-> None, unitLabel |-> None, unitKind |-> None,
      lineage |-> <<>>, via |-> None, viaLabel |-> None, viaKind |-> None ]

NoOrigin == [path |-> <<>>, n |-> 0]

\* an event dict; origin is history only: the generator that created the
\* event (its position in the execution tree) and its count of events so far
Event(type, data) ==
    [type |-> type, data |-> data, context |-> NoContext, origin |-> NoOrigin]

Notice(message) == Event("notice", [message |-> message])
ErrorEvent(message) == Event("error", [message |-> message])

\* dict(event), dict(data), dict(context): values here are never shared
_copy_event(event) == event

_attach_context(st, event, unit_id, unit_label) ==
    LET cloned == _copy_event(event)
        c0 == cloned.context
        c1 == IF c0.unitId = None THEN [c0 EXCEPT !.unitId = unit_id] ELSE c0
        c2 == IF c1.unitLabel = None THEN [c1 EXCEPT !.unitLabel = unit_label] ELSE c1
        c3 == IF unit_id \in DOMAIN st.execution_units /\ c2.unitKind = None
              THEN [c2 EXCEPT !.unitKind = st.execution_units[unit_id].kind]
              ELSE c2
    IN  [cloned EXCEPT !.context = c3]

\* lines 520-534 with the parent's id put in front of the lineage
_append_parent_context_Prepend(event, parent_unit) ==
    LET cloned == _copy_event(event)
        context == cloned.context
        lineage == IF parent_unit.id \in Range(context.lineage)
                   THEN context.lineage
                   ELSE <<parent_unit.id>> \o context.lineage
    IN  [cloned EXCEPT !.context =
            [context EXCEPT !.lineage = lineage,
                            !.via = parent_unit.id,
                            !.viaLabel = parent_unit.label,
                            !.viaKind = parent_unit.kind]]

_append_parent_context(event, parent_unit) ==
    LET cloned == _copy_event(event)
        context == cloned.context
        lineage == IF parent_unit.id \in Range(context.lineage)
                   THEN context.lineage
                   ELSE Append(context.lineage, parent_unit.id)
    IN  [cloned EXCEPT !.context =
            [context EXCEPT !.lineage = lineage,
                            !.via = parent_unit.id,
                            !.viaLabel = parent_unit.label,
                            !.viaKind = parent_unit.kind]]

----------------------------------------------------------------------------
(* Agent capability streams *)

\* the events _run_agent_stream yields for one update, lines 294-306
UpdateEvents(update) ==
    LET text == IF update.hasDelta /\ update.delta # ""
                THEN <<Event("text", [delta |-> update.delta])>> ELSE <<>>
        calls_ == IF update.hasToolCalls
                  THEN [k \in 1..Len(update.tool_calls) |->
                           Event("tool_call", [name |-> update.tool_calls[k],
                                               args |-> "{}"])]
                  ELSE <<>>
        plain == IF ~update.hasDelta /\ ~update.hasToolCalls
                 THEN <<Event("text", [delta |-> update.str])>> ELSE <<>>
    IN  text \o calls_ \o plain

----------------------------------------------------------------------------
(* Generator frames *)

Frame(gen, unit, pc, path) ==
    [ gen |-> gen, unit |-> unit, pc |-> pc, i |-> 1, j |-> 0,
      list |-> <<>>, queue |-> <<>>, remaining |-> 0, found |-> FALSE,
      path |-> path, n |-> 0, owner |-> <<>>, ownerDepth |-> 0 ]

UnitOf(st, id) ==
    IF id \in DOMAIN st.agent_units THEN st.agent_units[id]
    ELSE st.manager_units[id]

UnitFrame(unit, path) ==
    IF unit.kind = "agent" THEN Frame("agent", unit, "start", path)
    ELSE Frame("manager", unit, "coord", path)

\* what one resumption of a generator does: the frame it leaves on the stack
\* (or pop), the event it yields, the generator it starts iterating
Effect(top, pop, ev, push) ==
    [ top |-> top, pop |-> pop, ev |-> ev, push |-> push,
      spawn |-> FALSE, deq |-> FALSE, join |-> FALSE ]

\* lines 308-309: "except Exception as e: yield {error}"
AgentStreamRaised_Silent(script) == <<>>

AgentStreamRaised(script) ==
    IF script.raises THEN <<ErrorEvent(<<"agent stream raised">>)>> ELSE <<>>

\* AgentUnit.run_stream with TeamManager._run_agent_stream inlined
AgentEffect(st, e, f) ==
    LET unit == f.unit
        script == e.script[unit.id]
        attach(ev) == _attach_context(st, ev, unit.id, unit.label)
    IN  CASE f.pc = "start" ->
               Effect([f EXCEPT !.pc = "stream", !.i = 1, !.j = 0], FALSE,
                      <<attach(Notice(<<unit.label, "starting execution">>))>>, <<>>)
          [] f.pc = "stream" /\ f.i > Len(script.updates) ->
               Effect([f EXCEPT !.pc = "finish"], FALSE,
                      [k \in 1..Len(AgentStreamRaised(script)) |->
                          attach(AgentStreamRaised(script)[k])], <<>>)
          [] f.pc = "stream" /\ f.i <= Len(script.updates) ->
               LET ys == UpdateEvents(script.updates[f.i]) IN
               IF f.j + 1 >= Len(ys)
               THEN Effect([f EXCEPT !.i = f.i + 1, !.j = 0], FALSE,
                           IF Len(ys) = 0 THEN <<>> ELSE <<attach(ys[f.j + 1])>>, <<>>)
               ELSE Effect([f EXCEPT !.j = f.j + 1], FALSE,
                           <<attach(ys[f.j + 1])>>, <<>>)
          [] f.pc = "finish" ->
               Effect(f, TRUE, <<attach(Notice(<<unit.label, "finished">>))>>, <<>>)

\* lines 80-99 with every strategy run by _run_concurrent
Dispatch_Interleaved(unit) ==
    IF Len(unit.children) = 0 THEN "empty" ELSE "launch"

\* lines 80-99 without the "if not self.children" branch
Dispatch_NoEmptyCheck(unit) ==
    IF unit.strategy = "concurrent"
    THEN (IF Len(unit.children) = 0 THEN "spawn" ELSE "launch")
    ELSE IF unit.strategy \in {"sequential", "sequence"} THEN "seq"
    ELSE "unrecognized"

\* lines 80-99 with the "if not self.children" branch taken only by the
\* strategies run_stream recognizes
Dispatch_EmptyAfterStrategy(unit) ==
    IF unit.strategy \notin {"concurrent", "sequential", "sequence"} THEN "unrecognized"
    ELSE IF Len(unit.children) = 0 THEN "empty"
    ELSE IF unit.strategy = "concurrent" THEN "launch"
    ELSE "seq"

\* lines 90-109 with the else branch running _run_sequential without a notice
Dispatch_SilentDefault(unit) ==
    IF Len(unit.children) = 0 THEN "empty"
    ELSE IF unit.strategy = "concurrent" THEN "launch"
    ELSE "seq"

\* lines 80-99: where run_stream goes after its coordinating notice
Dispatch(unit) ==
    IF Len(unit.children) = 0 THEN "empty"
    ELSE IF unit.strategy = "concurrent" THEN "launch"
    ELSE IF unit.strategy \in {"sequential", "sequence"} THEN "seq"
    ELSE "unrecognized"

\* lines 155-162 with remaining decremented on every queue item
FanIn_CountsItems(f, unit) ==
    LET item == Head(f.queue) IN
    IF item.sentinel
    THEN Effect([f EXCEPT !.queue = Tail(@), !.remaining = @ - 1],
                FALSE, <<>>, <<>>)
    ELSE Effect([f EXCEPT !.queue = Tail(@), !.remaining = @ - 1], FALSE,
                <<_append_parent_context(item.payload, unit)>>, <<>>)

\* lines 155-162 with the newest item taken off the queue first
FanIn_NewestFirst(f, unit) ==
    LET item == f.queue[Len(f.queue)]
        rest == SubSeq(f.queue, 1, Len(f.queue) - 1)
    IN  IF item.sentinel
        THEN Effect([f EXCEPT !.queue = rest, !.remaining = @ - 1],
                    FALSE, <<>>, <<>>)
        ELSE Effect([f EXCEPT !.queue = rest], FALSE,
                    <<_append_parent_context(item.payload, unit)>>, <<>>)

\* lines 155-162: one "queue.get()" of the fan-in loop
FanIn(f, unit) ==
    LET item == Head(f.queue) IN
    IF item.sentinel
    THEN Effect([f EXCEPT !.queue = Tail(@), !.remaining = @ - 1],
                FALSE, <<>>, <<>>)
    ELSE Effect([f EXCEPT !.queue = Tail(@)], FALSE,
                <<_append_parent_context(item.payload, unit)>>, <<>>)

\* ManagerUnit.run_stream with _run_sequential and _run_concurrent inlined
ManagerEffect(st, f) ==
    LET unit == f.unit
        n == Len(unit.children)
        attach(ev) == _attach_context(st, ev, unit.id, unit.label)
        child(k) == UnitOf(st, unit.children[k])
    IN  CASE f.pc = "coord" ->
               Effect([f EXCEPT !.i = 1, !.pc = Dispatch(unit)], FALSE,
                      <<attach(Notice(<<unit.label, "coordinating", ToString(n),
                                        "member(s) via",
                                        IF unit.strategy = "" THEN "sequential"
                                        ELSE unit.strategy,
                                        "strategy">>))>>, <<>>)
          [] f.pc = "empty" ->
               Effect(f, TRUE,
                      <<attach(ErrorEvent(<<unit.label, "has no assigned team members">>))>>,
                      <<>>)
          [] f.pc = "unrecognized" ->
               Effect([f EXCEPT !.pc = "seq"], FALSE,
                      <<attach(Notice(<<unit.label, "does not recognize", unit.strategy,
                                        "strategy; defaulting to sequential execution">>))>>,
                      <<>>)
          [] f.pc = "seq" /\ f.i <= n ->
               Effect([f EXCEPT !.i = f.i + 1], FALSE,
                      <<attach(Notice(<<unit.label, "delegating to", child(f.i).label>>))>>,
                      <<UnitFrame(child(f.i), Append(f.path, f.i))>>)
          [] f.pc = "seq" /\ f.i > n ->
               Effect([f EXCEPT !.pc = "finished"], FALSE, <<>>, <<>>)
          [] f.pc = "launch" ->
               Effect([f EXCEPT !.i = f.i + 1,
                                !.pc = IF f.i + 1 > n THEN "spawn" ELSE "launch"],
                      FALSE,
                      <<attach(Notice(<<unit.label, "launching", child(f.i).label,
                                        "concurrently">>))>>, <<>>)
          [] f.pc = "spawn" ->
               [Effect([f EXCEPT !.pc = "fanin", !.remaining = n, !.queue = <<>>],
                       FALSE, <<>>, <<>>) EXCEPT !.spawn = TRUE]
          [] f.pc = "fanin" /\ f.remaining > 0 -> FanIn(f, unit)
          [] f.pc = "fanin" /\ f.remaining = 0 ->
               [Effect([f EXCEPT !.pc = "finished"], FALSE, <<>>, <<>>)
                   EXCEPT !.join = TRUE]
          [] f.pc = "finished" ->
               Effect(f, TRUE,
                      <<attach(Notice(<<unit.label, "finished coordination">>))>>, <<>>)

\* lines 313-333 with the agents tried before the managers
WithoutDirectorIds_AgentsFirst(st) ==
    IF Len(st.agent_node_ids) > 0 THEN st.agent_node_ids
    ELSE IF Len(st.root_manager_ids) > 0 THEN st.root_manager_ids
    ELSE st.manager_node_ids

\* the unit ids TeamManager._run_without_director iterates
WithoutDirectorIds(st) ==
    IF Len(st.root_manager_ids) > 0 THEN st.root_manager_ids
    ELSE IF DOMAIN st.manager_units # {} THEN st.manager_node_ids
    ELSE st.agent_node_ids

\* TeamManager._run_without_director
WithoutDirectorEffect(st, f) ==
    IF f.i > Len(f.list) THEN Effect(f, TRUE, <<>>, <<>>)
    ELSE LET id == f.list[f.i]
             known == id \in (DOMAIN st.agent_units \cup DOMAIN st.manager_units)
         IN  Effect([f EXCEPT !.i = f.i + 1], FALSE, <<>>,
                    IF known THEN <<UnitFrame(UnitOf(st, id), Append(f.path, f.i))>>
                    ELSE <<>>)

----------------------------------------------------------------------------
(* Tasks: the consumer's task drives TeamManager.run_stream; every child of *)
(* a concurrent manager is driven by a pump task (lines 145-152)            *)

MainTask == <<>>

PumpFrame(owner, depth, path) ==
    [Frame("pump", NoUnit, "pump", path) EXCEPT !.owner = owner, !.ownerDepth = depth]

Top(t) == tasks[t].stack[Len(tasks[t].stack)]

RECURSIVE Bubble(_, _)
\* an event yielded by the innermost generator passes through the generators
\* iterating it: a manager in _run_sequential adds itself to the lineage
Bubble(lower, event) ==
    IF Len(lower) = 0 THEN event
    ELSE LET f == lower[Len(lower)]
         IN  Bubble(SubSeq(lower, 1, Len(lower) - 1),
                    IF f.gen = "manager" THEN _append_parent_context(event, f.unit)
                    ELSE event)

QueueItem(unit_id, sentinel, payload) ==
    [unit |-> unit_id, sentinel |-> sentinel, payload |-> payload]

ApplyEffect(t, eff) ==
    LET stack0 == tasks[t].stack
        d == Len(stack0)
        f0 == stack0[d]
        lower0 == SubSeq(stack0, 1, d - 1)
        isPump == stack0[1].gen = "pump"
        fresh == Len(eff.ev) > 0 /\ eff.ev[1].origin = NoOrigin
        topf == IF fresh THEN [eff.top EXCEPT !.n = @ + 1] ELSE eff.top
        pumpIds == {Append(f0.path, k) : k \in 1..Len(f0.unit.children)}
        \* lines 151-152 (create_task per child) and 164-167 (the join)
        Spawn(tasks2) ==
            IF eff.spawn
            THEN [id \in pumpIds |->
                     [ stack |-> <<PumpFrame(t, d, id),
                                   UnitFrame(UnitOf(tm, f0.unit.children[id[Len(id)]]),
                                             id)>>,
                       status |-> "running" ]] @@ tasks2
            ELSE IF eff.join
            THEN [id \in DOMAIN tasks2 \ pumpIds |-> tasks2[id]]
            ELSE tasks2
        \* lines 147-150: queue.put of every event, then of the sentinel
        Put(tasks1, pumped) ==
            Spawn(IF isPump
                  THEN [tasks1 EXCEPT
                           ![stack0[1].owner].stack[stack0[1].ownerDepth].queue =
                               @ \o pumped]
                  ELSE tasks1)
        Pump(stack1, finished, yielded) ==
            Put([tasks EXCEPT ![t].stack = stack1,
                              ![t].status = IF finished THEN "done" ELSE @],
                [k \in 1..Len(yielded) |->
                    QueueItem(stack0[2].unit.id, FALSE, yielded[k])]
                \o (IF finished
                    THEN <<QueueItem(stack0[2].unit.id, TRUE, Event("sentinel", <<>>))>>
                    ELSE <<>>))
        Resume(stack1, yielded) == Pump(stack1, isPump /\ Len(stack1) = 1, yielded)
        Unwind(lower, yielded) ==
            Resume(IF eff.pop THEN lower ELSE lower \o <<topf>> \o eff.push, yielded)
        \* TeamManager.run_stream line 271: found = True
        Found(yielded) ==
            Unwind(IF d > 1 /\ Len(yielded) > 0 /\ stack0[1].pc = "nodir_done"
                   THEN [lower0 EXCEPT ![1].found = TRUE]
                   ELSE lower0,
                   yielded)
        Deliver(stamped, yielded) ==
            /\ tasks' = Found(yielded)
            /\ out' = IF isPump THEN out ELSE out \o yielded
            /\ produced' = IF fresh THEN produced \cup {stamped[1].origin}
                           ELSE produced
        Yield(stamped) ==
            Deliver(stamped, [k \in 1..Len(stamped) |-> Bubble(lower0, stamped[k])])
    IN  Yield([k \in 1..Len(eff.ev) |->
                  IF fresh
                  THEN [eff.ev[k] EXCEPT !.origin = [path |-> f0.path, n |-> f0.n + 1]]
                  ELSE eff.ev[k]])

Running(t) == t \in DOMAIN tasks /\ tasks[t].status = "running"

AgentStep(t) ==
    /\ Running(t)
    /\ Top(t).gen = "agent"
    /\ ApplyEffect(t, AgentEffect(tm, env, Top(t)))
    /\ UNCHANGED <<graph, env, tm, calls, run>>

ManagerStep(t) ==
    /\ Running(t)
    /\ Top(t).gen = "manager"
    /\ Top(t).pc = "fanin" =>
          IF Top(t).remaining > 0 THEN Len(Top(t).queue) > 0
          ELSE \A k \in 1..Len(Top(t).unit.children) :
                   tasks[Append(Top(t).path, k)].status = "done"
    /\ ApplyEffect(t, ManagerEffect(tm, Top(t)))
    /\ UNCHANGED <<graph, env, tm, calls, run>>

WithoutDirectorStep(t) ==
    /\ Running(t)
    /\ Top(t).gen = "nodir"
    /\ ApplyEffect(t, WithoutDirectorEffect(tm, Top(t)))
    /\ UNCHANGED <<graph, env, tm, calls, run>>

----------------------------------------------------------------------------
(* TeamManager.run_stream, lines 245-285 *)

IdleRun == [status |-> "idle", target |-> None, error |-> NoErr]

Targets == {"team", "does-not-exist", "teamDirector"}
               \cup {graph.nodes[i].id : i \in 1..Len(graph.nodes)}

StartRun(target) ==
    /\ run.status = "idle"
    /\ run' = [status |-> "running", target |-> target, error |-> NoErr]
    /\ tasks' = (MainTask :> [stack |-> <<Frame("top", NoUnit, "start", <<>>)>>,
                              status |-> "running"])
    /\ out' = <<>>
    /\ UNCHANGED <<graph, env, tm, calls, produced>>

\* lines 277-278 with the director run whatever unit the target names
TargetUnit_Director(st, target) ==
    IF st.director_unit.id # None THEN st.director_unit
    ELSE st.execution_units[target]

\* lines 277-278: unit = self.execution_units[target]
TargetUnit(st, target) == st.execution_units[target]

\* the effect of resuming run_stream once the hierarchy is built
RunStreamEffect(st, target, f) ==
    CASE f.pc = "start" ->
           Effect([f EXCEPT !.pc = "build"], FALSE,
                  <<Notice(<<"Starting team execution...">>)>>, <<>>)
      [] f.pc = "dispatch" /\ target = "team" ->
           Effect([f EXCEPT !.pc = "team"], FALSE,
                  <<Notice(<<"Running team workflow">>)>>, <<>>)
      [] f.pc = "dispatch" /\ target # "team" /\ target \in DOMAIN st.execution_units ->
           Effect([f EXCEPT !.pc = "complete"], FALSE, <<>>,
                  <<UnitFrame(TargetUnit(st, target), <<1>>)>>)
      [] f.pc = "dispatch" /\ target # "team" /\ target \notin DOMAIN st.execution_units ->
           Effect([f EXCEPT !.pc = "complete"], FALSE,
                  <<ErrorEvent(<<"Target", target, "not found">>)>>, <<>>)
      [] f.pc = "team" /\ st.director_unit.id # None ->
           Effect([f EXCEPT !.pc = "complete"], FALSE, <<>>,
                  <<UnitFrame(st.director_unit, <<1>>)>>)
      [] f.pc = "team" /\ st.director_unit.id = None ->
           Effect([f EXCEPT !.pc = "nodir_done", !.found = FALSE], FALSE, <<>>,
                  <<[Frame("nodir", NoUnit, "loop", <<>>) EXCEPT
                        !.list = WithoutDirectorIds(st)]>>)
      [] f.pc = "nodir_done" ->
           Effect([f EXCEPT !.pc = "complete"], FALSE,
                  IF f.found THEN <<>>
                  ELSE <<ErrorEvent(<<"No agents or managers available">>)>>, <<>>)
      [] f.pc = "complete" ->
           Effect([f EXCEPT !.pc = "returned"], FALSE,
                  <<Notice(<<"Execution complete">>)>>, <<>>)

BuildRecord(st, r) ==
    [summary |-> r.summary, err |-> r.err, wasBuilt |-> st.built]

\* one call of build() on the instance, its result logged
Build(r) ==
    /\ tm' = r.st
    /\ calls' = Append(calls, BuildRecord(tm, r))

\* lines 259-260: "if not self._built: await self.build()"
RunStreamBuild ==
    /\ Running(MainTask)
    /\ Top(MainTask).gen = "top"
    /\ Top(MainTask).pc = "build"
    /\ IF tm.built
       THEN /\ tasks' = [tasks EXCEPT ![MainTask].stack[1].pc = "dispatch"]
            /\ UNCHANGED <<tm, run, calls>>
       ELSE /\ Build(build(tm, env))
            /\ IF tm'.built
               THEN /\ tasks' = [tasks EXCEPT ![MainTask].stack[1].pc = "dispatch"]
                    /\ UNCHANGED run
               ELSE /\ run' = [run EXCEPT !.status = "raised",
                                          !.error = Last(calls').err]
                    /\ tasks' = [tasks EXCEPT ![MainTask].status = "done"]
    /\ UNCHANGED <<graph, env, out, produced>>

RunStreamStep ==
    /\ Running(MainTask)
    /\ Top(MainTask).gen = "top"
    /\ Top(MainTask).pc \notin {"build", "returned"}
    /\ ApplyEffect(MainTask, RunStreamEffect(tm, run.target, Top(MainTask)))
    /\ UNCHANGED <<graph, env, tm, calls, run>>

\* the generator is exhausted: the consumer's "async for" ends
RunStreamReturn ==
    /\ Running(MainTask)
    /\ Top(MainTask).gen = "top"
    /\ Top(MainTask).pc = "returned"
    /\ run' = [run EXCEPT !.status = "done"]
    /\ tasks' = [tasks EXCEPT ![MainTask].status = "done"]
    /\ UNCHANGED <<graph, env, tm, calls, out, produced>>

----------------------------------------------------------------------------
(* explicit calls of TeamManager.build by the caller *)

\* the caller builds the hierarchy before it streams (routers/chat.py:125-126)
BuildCall ==
    /\ run.status = "idle"
    /\ Len(calls) = 0
    /\ Build(build(tm, env))
    /\ UNCHANGED <<graph, env, run, tasks, out, produced>>

\* build() is called again on the same instance
BuildAgain ==
    /\ run.status = "idle"
    /\ Len(calls) > 0
    /\ Len(calls) < MaxBuildCalls
    /\ Build(build(tm, env))
    /\ UNCHANGED <<graph, env, run, tasks, out, produced>>

----------------------------------------------------------------------------
(* Inputs: project graphs and collaborator behaviour *)

Node(id, kind, label, strategy) ==
    [id |-> id, kind |-> kind, label |-> label, name |-> None, strategy |-> strategy]

Edge(source, target) == [source |-> source, target |-> target]

Settings(directorStrategy, teamStrategy) ==
    [ teamDirectorLabel |-> None, teamDirectorStrategy |-> directorStrategy,
      teamStrategy |-> teamStrategy ]

NoSettings == Settings(None, None)

Graph(nodes, edges, settings) ==
    [nodes |-> nodes, edges |-> edges, settings |-> settings]

RECURSIVE Pick(_, _)
\* the members of a universe at the given indices, in the universe's order
Pick(universe, I) ==
    IF I = {} THEN <<>>
    ELSE LET m == CHOOSE i \in I : \A j \in I : i <= j
         IN  <<universe[m]>> \o Pick(universe, I \ {m})

Reverse(s) == [i \in 1..Len(s) |-> s[Len(s) + 1 - i]]

SmallSubsets(n, k) == {I \in SUBSET (1..n) : Cardinality(I) <= k}

\* an update of an agent capability's stream
DeltaUpdate(text) ==
    [hasDelta |-> TRUE, delta |-> text, hasToolCalls |-> FALSE,
     tool_calls |-> <<>>, str |-> "<update>"]

ToolUpdate(text, names) ==
    [hasDelta |-> TRUE, delta |-> text, hasToolCalls |-> TRUE,
     tool_calls |-> names, str |-> "<update>"]

PlainUpdate == [hasDelta |-> FALSE, delta |-> "", hasToolCalls |-> FALSE,
                tool_calls |-> <<>>, str |-> "<update>"]

Script(k, raises) ==
    [updates |-> [i \in 1..k |-> DeltaUpdate(ToString(i))], raises |-> raises]

Scripts == {Script(k, r) : k \in 0..MaxScript, r \in BOOLEAN}

MixedScript ==
    [updates |-> <<ToolUpdate("", <<"search", "fetch">>), PlainUpdate,
                   ToolUpdate("", <<>>), ToolUpdate("x", <<"search">>)>>,
     raises |-> FALSE]

Env(toolOutcome, a1Outcome, a2Outcome, a1Script, a2Script) ==
    [ tool |-> [t \in {"t1"} |-> toolOutcome],
      agent |-> [a \in {"a1", "a2"} |-> IF a = "a1" THEN a1Outcome ELSE a2Outcome],
      script |-> [a \in {"a1", "a2"} |-> IF a = "a1" THEN a1Script ELSE a2Script] ]

DefaultEnv == Env("ok", "ok", "ok", Script(1, FALSE), Script(1, FALSE))

RunNodes(s1, s2) ==
    << Node("t1", "tool", None, None),
       Node("a1", "agent", None, None),
       Node("a2", "agent", "Writer", None),
       Node("m1", "teamManager", None, s1),
       Node("m2", "teamManager", "Team B", s2) >>

DirectorNodeOf(strategy) == Node("d1", "teamDirector", "Lead", strategy)

RunEdges ==
    << Edge("m1", "a1"), Edge("m1", "m2"), Edge("m1", "a2"), Edge("m2", "a2"),
       Edge("m2", "a1"), Edge("m2", "m1"), Edge("d1", "m1"), Edge("a1", "t1") >>

Input(g, e) == [graph |-> g, env |-> e]

\* every small edge set over the run universe, sequential managers
TopologyInputs ==
    { Input(Graph(nodes, Pick(RunEdges, I), NoSettings), DefaultEnv) :
        nodes \in { RunNodes("sequential", "sequential"),
                    RunNodes("sequential", "sequential")
                        \o <<DirectorNodeOf("sequential")>> },
        I \in SmallSubsets(Len(RunEdges), MaxEdges) }

\* a flat team m1 -> a1, a2 under every strategy and every stream of a1
FlatTeamInputs ==
    { Input(Graph(RunNodes(s1, "sequential"), Pick(RunEdges, {1, 3}), NoSettings),
            Env("ok", "ok", "ok", sc1, sc2)) :
        s1 \in {"sequential", "concurrent", "round_robin", "sequence"},
        sc1 \in Scripts, sc2 \in {Script(1, FALSE), Script(0, TRUE)} }

\* nested teams m1 -> a1, m2 and m2 -> a2 (or m2 -> a1) under mixed strategies
NestedTeamInputs ==
    { Input(Graph(RunNodes(sp[1], sp[2]), Pick(RunEdges, I), NoSettings),
            Env("ok", "ok", "ok", Script(0, TRUE), Script(0, FALSE))) :
        sp \in { <<"concurrent", "sequential">>, <<"sequential", "Concurrent">>,
                 <<"concurrent", "concurrent">>, <<"", "round_robin">> },
        I \in {{1, 2, 4}, {2, 5}, {1, 3, 4, 5}} }

\* graphs without managers: agents only, construction failures, settings
AgentOnlyInputs ==
    { Input(Graph(<< Node("t1", "tool", None, None),
                     Node("a1", "agent", None, None),
                     Node("a2", "agent", "Writer", None) >>,
                  Pick(RunEdges, I), NoSettings),
            Env(t, o1, "ok", s1, MixedScript)) :
        I \in {{}, {8}}, t \in {"ok", "none", "raise"}, o1 \in {"ok", "raise"},
        s1 \in {Script(1, FALSE), Script(1, TRUE)} }
    \cup
    { Input(Graph(<< Node("a1", "agent", None, None),
                     Node("a2", "agent", "Writer", None) >>, <<>>, st),
            Env("ok", o1, o2, Script(1, FALSE), Script(0, FALSE))) :
        st \in {Settings("Concurrent", None), Settings(None, "concurrent"),
                Settings("sequential", "concurrent")},
        o1 \in {"ok", "raise"}, o2 \in {"ok", "raise"} }

\* a declared director, with and without children, and null strategies
DirectorInputs ==
    { Input(Graph(RunNodes(s1, "sequential") \o <<DirectorNodeOf(sd)>>,
                  Pick(RunEdges, I), NoSettings),
            Env("ok", "ok", o2, Script(1, FALSE), Script(1, FALSE))) :
        s1 \in {"sequential", None}, sd \in {"sequential", None},
        I \in {{}, {1}, {1, 7}, {1, 4, 7}}, o2 \in {"ok", "raise"} }

\* no director node, but edges whose source is the id the synthesized director
\* node is given; nothing on the run path rejects an edge from an absent node
UndeclaredDirectorInputs ==
    { Input(Graph(RunNodes("sequential", "sequential"),
                  Pick(RunEdges, I) \o <<Edge("teamDirector", target)>>,
                  NoSettings), DefaultEnv) :
        I \in {{1}, {1, 4}}, target \in {"a2", "m2", "t1"} }

\* a manager that delegates to itself, declared after a manager that builds
SelfLoopInputs ==
    { Input(Graph(RunNodes("sequential", "sequential"),
                  Pick(RunEdges, I) \o <<Edge("m2", "m2")>>,
                  NoSettings), DefaultEnv) :
        I \in {{1}, {4}} }

\* managers without members under every kind of strategy, as roots and as
\* the only member of another manager
EmptyManagerInputs ==
    { Input(Graph(RunNodes(sp[1], sp[2]), Pick(RunEdges, I), NoSettings), DefaultEnv) :
        sp \in { <<"concurrent", "round_robin">>, <<"round_robin", "Concurrent">>,
                 <<"", "sequence">> },
        I \in {{}, {2}} }

\* a declared director whose only declared member is an agent that cannot be
\* constructed: no director unit is built although other units are
NoDirectorInputs ==
    { Input(Graph(nodes \o << Node("a3", "agent", "Ghost", None),
                              DirectorNodeOf("sequential") >>,
                  Pick(RunEdges, I) \o <<Edge("d1", "a3")>>, NoSettings),
            [ tool   |-> [t \in {"t1"} |-> "ok"],
              agent  |-> [a \in {"a1", "a2", "a3"} |->
                             IF a = "a3" THEN "raise" ELSE o2],
              script |-> [a \in {"a1", "a2", "a3"} |->
                             IF a = "a1" THEN sc1 ELSE Script(1, FALSE)] ]) :
        nodes \in { RunNodes("sequential", "concurrent"),
                    SubSeq(RunNodes("sequential", "sequential"), 1, 3) },
        I \in {{}, {1}, {1, 4}, {1, 2, 4}},
        o2 \in {"ok", "raise"},
        sc1 \in {Script(1, FALSE), Script(0, TRUE)} }

\* edge lists that name the same pair twice
DuplicateEdgeInputs ==
    { Input(Graph(RunNodes("sequential", "sequential"), edges, NoSettings),
            DefaultEnv) :
        edges \in { <<Edge("m1", "a1"), Edge("m1", "a1")>>,
                    <<Edge("a1", "t1"), Edge("m1", "a1"), Edge("a1", "t1")>>,
                    <<Edge("m1", "m2"), Edge("m2", "a2"), Edge("m1", "m2")>> } }

RunInputs ==
    NoDirectorInputs \cup DuplicateEdgeInputs \cup TopologyInputs \cup FlatTeamInputs \cup NestedTeamInputs
        \cup AgentOnlyInputs \cup DirectorInputs \cup UndeclaredDirectorInputs
        \cup SelfLoopInputs \cup EmptyManagerInputs

\* graphs for the resolver: three managers in either declaration order, one
\* of them possibly with a null strategy, an agent, a tool, a declared director
BuildNodes(forward, s3, withDirector) ==
    LET m1 == Node("m1", "teamManager", None, "sequential")
        m2 == Node("m2", "teamManager", "Team B", "concurrent")
        m3 == Node("m3", "teamManager", None, s3)
    IN  << Node("t1", "tool", None, None), Node("a1", "agent", None, None) >>
        \o (IF forward THEN <<m1, m2, m3>> ELSE <<m3, m2, m1>>)
        \o (IF withDirector THEN <<DirectorNodeOf("sequential")>> ELSE <<>>)

BuildEdges ==
    << Edge("m1", "m2"), Edge("m2", "m3"), Edge("m3", "m1"), Edge("m2", "m1"),
       Edge("m1", "m1"), Edge("m1", "m3"), Edge("m1", "a1"), Edge("m3", "a1"),
       Edge("a1", "t1"), Edge("t1", "a1"), Edge("a1", "m1"), Edge("d1", "m2"),
       Edge("d1", "a1") >>

BuildEnvs ==
    { Env("ok", "ok", "ok", Script(0, FALSE), Script(0, FALSE)),
      Env("raise", "ok", "ok", Script(0, FALSE), Script(0, FALSE)),
      Env("none", "raise", "ok", Script(0, FALSE), Script(0, FALSE)) }

BuildInputs ==
    { Input(Graph(BuildNodes(forward, s3, withDirector),
                  IF reversed THEN Reverse(Pick(BuildEdges, I)) ELSE Pick(BuildEdges, I),
                  NoSettings), e) :
        forward \in BOOLEAN, s3 \in {"sequential", None}, withDirector \in BOOLEAN,
        reversed \in BOOLEAN, I \in SmallSubsets(Len(BuildEdges), MaxEdges),
        e \in BuildEnvs }

----------------------------------------------------------------------------
(* Specification of one orchestrator instance serving one run *)

InitWith(inputs) ==
    \E inp \in inputs :
        /\ graph = inp.graph
        /\ env = inp.env
        /\ tm = TeamManagerInit(inp.graph)
        /\ calls = <<>>
        /\ run = IdleRun
        /\ tasks = <<>>
        /\ out = <<>>
        /\ produced = {}

Init == InitWith(RunInputs)

Next ==
    \/ \E target \in Targets : StartRun(target)
    \/ RunStreamBuild
    \/ RunStreamStep
    \/ RunStreamReturn
    \/ \E t \in DOMAIN tasks : AgentStep(t)
    \/ \E t \in DOMAIN tasks : ManagerStep(t)
    \/ \E t \in DOMAIN tasks : WithoutDirectorStep(t)
    \/ BuildCall

Spec == Init /\ [][Next]_vars

\* repeated build() calls on one instance, no run
InitBuild == InitWith(BuildInputs)

NextBuild ==
    \/ BuildCall
    \/ BuildAgain

SpecBuild == InitBuild /\ [][NextBuild]_vars

\* runs under the event loop's scheduling: a task that can take a step takes
\* one, and the consumer keeps iterating the stream
LiveInputs ==
    { inp \in FlatTeamInputs :
        /\ inp.graph.nodes[4].strategy = "concurrent"
        /\ inp.env.script["a2"] = Script(1, FALSE) }
    \cup { inp \in NestedTeamInputs :
             /\ inp.graph.nodes[4].strategy = "concurrent"
             /\ inp.graph.nodes[5].strategy = "concurrent"
             /\ Len(inp.graph.edges) = 3 }
    \cup { inp \in AgentOnlyInputs : inp.graph.settings # NoSettings }

InitLive == InitWith(LiveInputs)

\* a step of the run once the hierarchy is built
Progress ==
    \/ tm.built /\ RunStreamBuild
    \/ RunStreamStep
    \/ RunStreamReturn
    \/ \E t \in DOMAIN tasks : AgentStep(t)
    \/ \E t \in DOMAIN tasks : ManagerStep(t)
    \/ \E t \in DOMAIN tasks : WithoutDirectorStep(t)

\* one team run on a fresh instance
NextLive ==
    \/ StartRun("team")
    \/ RunStreamBuild
    \/ RunStreamStep
    \/ RunStreamReturn
    \/ \E t \in DOMAIN tasks : AgentStep(t)
    \/ \E t \in DOMAIN tasks : ManagerStep(t)
    \/ \E t \in DOMAIN tasks : WithoutDirectorStep(t)

LiveSpec == InitLive /\ [][NextLive]_vars /\ WF_vars(Progress)

----------------------------------------------------------------------------
(* A consumer that stops early: it closes the stream after env.take events *)
(* (aclose() on run_stream, or leaving its "async for"), or its task is    *)
(* cancelled while run_stream waits in the fan-in loop of a concurrent      *)
(* manager. A frame of a manager stands for two generators, run_stream and  *)
(* the _run_sequential or _run_concurrent it iterates. Closing a generator  *)
(* raises GeneratorExit at its yield and closes that generator only: the    *)
(* generator it was iterating is closed later, by a task the event loop     *)
(* creates when the generator is dropped. A CancelledError raised inside    *)
(* the innermost generator unwinds all of them at once.                     *)

MaxTake == 10       \* most events a consumer takes before it closes the stream

PumpIdsOf(f) == {Append(f.path, k) : k \in 1..Len(f.unit.children)}

\* the consumer's "async for" is at the yield that delivered its last event
Consuming == run.status = "running" /\ Len(out) < env.take

\* run_stream of the manager is inside "async for ... in self._run_...()"
HasInnerGenerator(f) ==
    /\ f.gen = "manager"
    /\ \/ f.pc \in {"spawn", "fanin"}
       \/ f.pc \in {"seq", "launch"} /\ f.i >= 2

\* GeneratorExit at the yield of lines 92, 95 or 109 ends run_stream; the
\* generator it was iterating stays suspended at its own yield
RunStreamClosed(f) ==
    IF ~HasInnerGenerator(f) THEN "closed"
    ELSE IF f.pc = "fanin" THEN "fanin_closing"
    ELSE IF f.pc = "seq" THEN "seq_closing"
    ELSE "launch_closing"

\* lines 164-166: task.cancel() for every task that is not done
CancelPumps(ts, ids) ==
    [t \in DOMAIN ts |->
        IF t \in ids /\ ts[t].status = "running"
        THEN [ts[t] EXCEPT !.status = "cancelling"]
        ELSE ts[t]]

\* the consumer closes run_stream at the yield of its last event: lines
\* 257-285 have no try/finally, the generator just ends
ConsumerClose ==
    /\ run.status = "running"
    /\ Running(MainTask)
    /\ Len(out) = env.take
    /\ run' = [run EXCEPT !.status = "closed"]
    /\ tasks' = [tasks EXCEPT ![MainTask].stack[1].pc = "closed",
                              ![MainTask].status = "closed"]
    /\ UNCHANGED <<graph, env, tm, calls, out, produced>>

\* the outermost generator of the closed run that is still suspended
Suspended(d) ==
    /\ d \in 1..Len(tasks[MainTask].stack)
    /\ tasks[MainTask].stack[d].pc # "closed"
    /\ \A k \in 1..(d - 1) : tasks[MainTask].stack[k].pc = "closed"

\* the event loop closes a dropped generator: a unit's run_stream, or a
\* _run_sequential, or a _run_concurrent that has no tasks yet
FinalizeGenerator ==
    /\ run.status = "closed"
    /\ \E d \in 1..Len(tasks[MainTask].stack) :
          /\ Suspended(d)
          /\ tasks[MainTask].stack[d].pc \notin {"fanin_closing", "finalizing"}
          /\ tasks' = [tasks EXCEPT ![MainTask].stack[d].pc =
                          IF @ \in {"seq_closing", "launch_closing"} THEN "closed"
                          ELSE RunStreamClosed(tasks[MainTask].stack[d])]
    /\ UNCHANGED <<graph, env, tm, calls, run, out, produced>>

\* the event loop closes a dropped _run_concurrent: GeneratorExit at line 162
\* enters the finally of lines 163-167, which cancels the pump tasks
FinalizeConcurrent ==
    /\ run.status = "closed"
    /\ \E d \in 1..Len(tasks[MainTask].stack) :
          /\ Suspended(d)
          /\ tasks[MainTask].stack[d].pc = "fanin_closing"
          /\ tasks' = CancelPumps(
                          [tasks EXCEPT ![MainTask].stack[d].pc = "finalizing"],
                          PumpIdsOf(tasks[MainTask].stack[d]))
    /\ UNCHANGED <<graph, env, tm, calls, run, out, produced>>

\* line 167: asyncio.gather returns once every pump task is done
FinalizeGathered ==
    /\ run.status = "closed"
    /\ \E d \in 1..Len(tasks[MainTask].stack) :
          /\ Suspended(d)
          /\ tasks[MainTask].stack[d].pc = "finalizing"
          /\ \A p \in PumpIdsOf(tasks[MainTask].stack[d]) : tasks[p].status = "done"
          /\ tasks' = [tasks EXCEPT ![MainTask].stack[d].pc = "closed"]
    /\ UNCHANGED <<graph, env, tm, calls, run, out, produced>>

\* the consumer's task is cancelled while run_stream waits in queue.get()
ConsumerCancel ==
    /\ Consuming
    /\ Running(MainTask)
    /\ Top(MainTask).gen = "manager"
    /\ Top(MainTask).pc = "fanin"
    /\ Top(MainTask).remaining > 0
    /\ Top(MainTask).queue = <<>>
    /\ run' = [run EXCEPT !.status = "cancelling"]
    /\ tasks' = [tasks EXCEPT ![MainTask].status = "cancelling"]
    /\ UNCHANGED <<graph, env, tm, calls, out, produced>>

\* a pump that was cancelled before its first step never enters its try
NotStarted(t) ==
    /\ Len(tasks[t].stack) = 2
    /\ Top(t).n = 0
    /\ Top(t).pc \in {"start", "coord"}

\* the task ends: the exception has left every generator of its stack, and
\* a pump's finally (line 150) has put its sentinel
Unwound(t) ==
    LET stack == tasks[t].stack
        ended == [tasks EXCEPT
                     ![t].stack = [d \in 1..Len(stack) |->
                                      IF d = 1 /\ t # MainTask THEN stack[d]
                                      ELSE [stack[d] EXCEPT !.pc = "unwound"]],
                     ![t].status = "done"]
    IN  IF t = MainTask \/ NotStarted(t) THEN ended
        ELSE [ended EXCEPT
                 ![stack[1].owner].stack[stack[1].ownerDepth].queue =
                     Append(@, QueueItem(stack[2].unit.id, TRUE,
                                         Event("sentinel", <<>>)))]

\* CancelledError reaches a cancelled task where it waits: in queue.get() of
\* a fan-in loop it enters the finally of lines 163-167 (cancel the pumps,
\* then gather them); anywhere else it ends the task
TaskCancelled(t) ==
    /\ t \in DOMAIN tasks
    /\ tasks[t].status = "cancelling"
    /\ IF Top(t).gen = "manager" /\ Top(t).pc = "fanin"
       THEN /\ tasks' = CancelPumps(
                            [tasks EXCEPT ![t].stack[Len(tasks[t].stack)].pc = "gather"],
                            PumpIdsOf(Top(t)))
            /\ UNCHANGED run
       ELSE /\ Top(t).pc = "gather" =>
                  \A p \in PumpIdsOf(Top(t)) : tasks[p].status = "done"
            /\ tasks' = Unwound(t)
            /\ run' = IF t = MainTask THEN [run EXCEPT !.status = "cancelled"]
                      ELSE run
    /\ UNCHANGED <<graph, env, tm, calls, out, produced>>

\* teams with concurrent managers, and how many events the consumer takes
CloseInputs ==
    { Input(inp.graph, [take |-> k] @@ inp.env) :
        inp \in { i \in FlatTeamInputs :
                    /\ i.graph.nodes[4].strategy = "concurrent"
                    /\ i.env.script["a1"] = Script(2, FALSE)
                    /\ i.env.script["a2"] = Script(1, FALSE) }
                \cup { i \in NestedTeamInputs :
                         /\ i.graph.nodes[4].strategy = "concurrent"
                         /\ i.graph.nodes[5].strategy = "concurrent"
                         /\ Len(i.graph.edges) = 3 }
                \cup { i \in AgentOnlyInputs :
                         /\ i.graph.settings # NoSettings
                         /\ i.env.agent["a1"] = "ok" /\ i.env.agent["a2"] = "ok" },
        k \in 1..MaxTake }

InitClose == InitWith(CloseInputs)

NextClose ==
    \/ StartRun("team")
    \/ Consuming /\ RunStreamBuild
    \/ Consuming /\ RunStreamStep
    \/ Consuming /\ AgentStep(MainTask)
    \/ Consuming /\ ManagerStep(MainTask)
    \/ \E t \in DOMAIN tasks \ {MainTask} : AgentStep(t)
    \/ \E t \in DOMAIN tasks \ {MainTask} : ManagerStep(t)
    \/ ConsumerClose
    \/ FinalizeGenerator
    \/ FinalizeConcurrent
    \/ FinalizeGathered
    \/ ConsumerCancel
    \/ \E t \in DOMAIN tasks : TaskCancelled(t)

CloseSpec == InitClose /\ [][NextClose]_vars

----------------------------------------------------------------------------
(* build() calls in flight together on one instance. A build() coroutine   *)
(* runs without interruption up to "await create_agent" (line 358), where  *)
(* the factory may suspend it and the event loop may run another caller's  *)
(* build(); it is resumed with the factory's result. Every agent factory   *)
(* of these inputs succeeds, so the managers and the director find their   *)
(* agents in the cache and lines 230-243 run without suspension.           *)

Builders == {<<b>> : b \in 1..MaxBuildCalls}

\* the coroutine of one build() call suspended in create_agent for the i-th
\* agent node, holding the tools it resolved before the await
BuildFrame(b, i, agent_tools) ==
    [Frame("build", NoUnit, "create", b) EXCEPT !.i = i, !.list = agent_tools]

\* lines 353-354: the tools handed to the factory
AgentTools(st, agent_id) ==
    SelectSeq(_resolve_children(st, agent_id, {"tool"}), LAMBDA t : t \in st.tools)

\* lines 363-367: the unit is entered into the caches
RegisterAgent(st, unit) ==
    [st EXCEPT !.agent_units = (unit.id :> unit) @@ @,
               !.execution_units = (unit.id :> unit) @@ @]

RECURSIVE NextCreateAgent(_, _)
\* lines 227-228 with 347-348: the next agent node, from the i-th on, that is
\* not in the cache (0: none left)
NextCreateAgent(st, i) ==
    IF i > Len(st.agent_node_ids) THEN 0
    ELSE IF st.agent_node_ids[i] \in DOMAIN st.agent_units
    THEN NextCreateAgent(st, i + 1)
    ELSE i

\* the coroutine runs from the i-th agent node to its next suspension, or
\* to the end of build()
BuildContinue(b, st, i) ==
    LET Suspend(k) ==
            /\ tm' = [st EXCEPT !.agentCalls = Append(@, st.agent_node_ids[k])]
            /\ tasks' = (b :> [stack |-> <<BuildFrame(b, k,
                                     AgentTools(st, st.agent_node_ids[k]))>>,
                               status |-> "running"]) @@ tasks
            /\ UNCHANGED calls
        Return(r) ==
            /\ tm' = r.st
            /\ calls' = Append(calls, BuildRecord(tm, r))
            /\ tasks' = (b :> [stack |-> <<Frame("build", NoUnit, "returned", b)>>,
                               status |-> "done"]) @@ tasks
        Go(k) ==
            IF k = 0 THEN Return(BuildManagersAndDirector(st, env))
            ELSE Suspend(k)
    IN  Go(NextCreateAgent(st, i))

\* a caller awaits build(): lines 217-225, then the agent loop
BuildEnter(b) ==
    /\ run.status = "idle"
    /\ b \in Builders \ DOMAIN tasks
    /\ \A c \in Builders : c[1] < b[1] => c \in DOMAIN tasks
    /\ IF tm.built
       THEN /\ calls' = Append(calls, BuildRecord(tm, build(tm, env)))
            /\ tasks' = (b :> [stack |-> <<Frame("build", NoUnit, "returned", b)>>,
                               status |-> "done"]) @@ tasks
            /\ UNCHANGED tm
       ELSE BuildContinue(b, _build_tools(tm, env), 1)
    /\ UNCHANGED <<graph, env, run, out, produced>>

\* the factory returns to a suspended build(): lines 358-367, then the loop
BuildResume(b) ==
    /\ Running(b)
    /\ Top(b).gen = "build"
    /\ Top(b).pc = "create"
    /\ LET agent_id == tm.agent_node_ids[Top(b).i]
       IN  BuildContinue(b,
               IF create_agent(env, agent_id) = "raise" THEN tm
               ELSE RegisterAgent(tm, AgentUnit(tm.nodes[agent_id], Top(b).list)),
               Top(b).i + 1)
    /\ UNCHANGED <<graph, env, run, out, produced>>

\* graphs whose agent factories all succeed, every tool outcome
RaceInputs ==
    { Input(inp.graph, [inp.env EXCEPT !.tool = [t \in DOMAIN @ |-> o]]) :
        inp \in TopologyInputs, o \in {"ok", "none", "raise"} }

InitRace == InitWith(RaceInputs)

NextRace ==
    \/ \E b \in Builders : BuildEnter(b)
    \/ \E b \in Builders : BuildResume(b)

RaceSpec == InitRace /\ [][NextRace]_vars

----------------------------------------------------------------------------
(* Properties of the resolver *)


\* the manager -> manager edges of the graph, as pairs
ManagerEdges ==
    LET managers == Range(NodeIdsOfKind(graph, "teamManager"))
    IN  { <<graph.edges[i].source, graph.edges[i].target>> : i \in 1..Len(graph.edges) }
            \cap (managers \X managers)

RECURSIVE ReachableFrom(_, _)
ReachableFrom(S, E) ==
    LET next == S \cup {e[2] : e \in {x \in E : x[1] \in S}}
    IN  IF next = S THEN S ELSE ReachableFrom(next, E)

HasManagerCycle ==
    \E e \in ManagerEdges : e[1] \in ReachableFrom({e[2]}, ManagerEdges)

\* the reported path ends with a closed walk along manager edges
NamesCycle(path) ==
    /\ Len(path) >= 2
    /\ \E k \in 1..(Len(path) - 1) :
          /\ path[k] = Last(path)
          /\ \A j \in k..(Len(path) - 1) : <<path[j], path[j + 1]>> \in ManagerEdges

\* C2: on a graph whose manager-to-manager edges contain a cycle, every
\* build() raises the cycle error and its message names the managers of a
\* cycle of the graph
C2_CycleRejected ==
    HasManagerCycle =>
        \A i \in 1..Len(calls) :
            /\ calls[i].err.kind = "cycle"
            /\ NamesCycle(calls[i].err.path)

\* C9: build() on a built instance returns the summary of the first build,
\* leaves every field of the orchestrator (caches, director, factory call
\* logs) as it was
C9_IdempotentBuild ==
    [][(tm.built /\ calls' # calls) =>
          /\ tm' = tm
          /\ Last(calls').err.kind = "none"
          /\ \A i \in 1..Len(calls) :
                 calls[i].err.kind = "none" => Last(calls').summary = calls[i].summary]_vars

C9_Witness ==
    /\ Len(calls) >= 2
    /\ calls[2].wasBuilt
    /\ Len(tm.agentCalls) > 0
    /\ Len(tm.toolCalls) > 0
    /\ tm.director_unit.id # None

----------------------------------------------------------------------------
(* Properties of the runs *)

\* the unit at the root of the run's execution tree
RootUnit ==
    IF run.target = "team" THEN tm.director_unit
    ELSE IF run.target \in DOMAIN tm.execution_units
    THEN tm.execution_units[run.target]
    ELSE NoUnit

RECURSIVE PathsUnder(_, _)
PathsUnder(unit, path) ==
    {path} \cup
        IF unit.kind = "agent" THEN {}
        ELSE UNION { PathsUnder(UnitOf(tm, unit.children[i]), Append(path, i)) :
                        i \in 1..Len(unit.children) }

\* a team run without a director has one tree per unit of the fallback:
\* <<i>> is the i-th id _run_without_director iterates
FallbackRoots ==
    IF run.target = "team" /\ tm.director_unit.id = None
    THEN WithoutDirectorIds(tm) ELSE <<>>

\* the positions of the execution tree: <<1>> is the root, p \o <<i>> the
\* i-th child of the manager at p
TreePaths ==
    IF RootUnit.id # None THEN PathsUnder(RootUnit, <<1>>)
    ELSE UNION { PathsUnder(UnitOf(tm, FallbackRoots[i]), <<i>>) :
                    i \in { k \in 1..Len(FallbackRoots) :
                              FallbackRoots[k] \in DOMAIN tm.agent_units
                                                      \cup DOMAIN tm.manager_units } }

RECURSIVE UnitAt(_)
UnitAt(path) ==
    IF Len(path) = 1
    THEN (IF RootUnit.id # None THEN RootUnit ELSE UnitOf(tm, FallbackRoots[path[1]]))
    ELSE UnitOf(tm, UnitAt(SubSeq(path, 1, Len(path) - 1)).children[Last(path)])

IsManagerAt(p) == UnitAt(p).kind # "agent"

\* the events the generator at position p created, as the consumer saw them
EventsAt(p) == SelectSeq(out, LAMBDA ev : ev.origin.path = p)

IsUnder(p, q) == Len(q) > Len(p) /\ SubSeq(q, 1, Len(p)) = p

\* the second word of a unit's notice or error ("starting execution", ...)
Says(ev, type, what) ==
    /\ ev.type = type
    /\ Len(ev.data.message) >= 2
    /\ ev.data.message[2] = what

IsStart(ev) ==
    ev.type = "notice" /\ ev.data.message = <<"Starting team execution...">>

IsComplete(ev) ==
    ev.type = "notice" /\ ev.data.message = <<"Execution complete">>

Finished == run.status \in {"done", "raised"}

\* C1: every run starts with the start notice and ends normally with the
\* complete notice as its last event, whatever fails in between
C1_Bracketed ==
    Finished =>
        /\ run.status = "done"
        /\ Len(out) >= 2
        /\ IsStart(out[1])
        /\ IsComplete(Last(out))

\* an agent's run as the consumer sees it: the starting notice first, the
\* finished notice last, and between them one error event, placed last, if
\* and only if the capability's stream raises
AgentRanToCompletion(p) ==
    LET evs == EventsAt(p)
        errors == SelectSeq(evs, LAMBDA ev : ev.type = "error")
        raises == env.script[UnitAt(p).id].raises
    IN  /\ Len(evs) >= 2
        /\ Says(evs[1], "notice", "starting execution")
        /\ Says(Last(evs), "notice", "finished")
        /\ Len(errors) = IF raises THEN 1 ELSE 0
        /\ raises => evs[Len(evs) - 1].type = "error"

ManagerRanToCompletion(p) ==
    LET evs == EventsAt(p)
    IN  /\ Len(evs) >= 2
        /\ Says(evs[1], "notice", "coordinating")
        /\ IF Len(UnitAt(p).children) = 0
           THEN Says(Last(evs), "error", "has no assigned team members")
           ELSE Says(Last(evs), "notice", "finished coordination")

\* C3: a raising agent stream becomes one error event of that unit and no
\* exception reaches the consumer; every unit of the tree, the siblings of
\* the failed agent included, runs to completion and every manager with
\* children emits its finished coordination notice
C3_AgentFailureContained ==
    /\ run.status = "raised" => Len(out) = 1
    /\ run.status = "done" =>
          \A p \in TreePaths :
              IF IsManagerAt(p) THEN ManagerRanToCompletion(p)
              ELSE AgentRanToCompletion(p)

C3_Witness ==
    /\ run.status = "done"
    /\ \E p \in TreePaths :
          /\ IsManagerAt(p)
          /\ UnitAt(p).strategy = "sequential"
          /\ Len(UnitAt(p).children) >= 2
          /\ UnitAt(p).children[1] \in DOMAIN tm.agent_units
          /\ env.script[UnitAt(p).children[1]].raises
    /\ \E p \in TreePaths :
          /\ IsManagerAt(p)
          /\ UnitAt(p).strategy = "concurrent"
          /\ Len(UnitAt(p).children) >= 2
          /\ \E i \in 1..Len(UnitAt(p).children) :
                /\ UnitAt(p).children[i] \in DOMAIN tm.agent_units
                /\ env.script[UnitAt(p).children[i]].raises

\* where an event stands in the run of the sequential manager at p: its own
\* n-th event (coordinating, delegating to child 1, ...) or child i's stream
SequentialSlot(p, ev) ==
    IF ev.origin.path = p THEN 2 * (ev.origin.n - 1)
    ELSE 2 * ev.origin.path[Len(p) + 1] + 1

\* C4: under a manager with strategy sequential the consumer sees child i's
\* whole stream, in the child's own order, before the delegating notice and
\* the first event of child i+1; at the end every event produced is there
C4_SequentialOrder ==
    /\ \A p \in TreePaths :
          (IsManagerAt(p) /\ UnitAt(p).strategy = "sequential") =>
              LET sub == SelectSeq(out, LAMBDA ev :
                             ev.origin.path = p \/ IsUnder(p, ev.origin.path))
              IN  \A k \in 1..(Len(sub) - 1) :
                      /\ SequentialSlot(p, sub[k]) <= SequentialSlot(p, sub[k + 1])
                      /\ sub[k].origin.path = sub[k + 1].origin.path =>
                             sub[k].origin.n < sub[k + 1].origin.n
    /\ run.status = "done" => produced = {out[k].origin : k \in 1..Len(out)}

C4_Witness ==
    /\ run.status = "done"
    /\ \E p \in TreePaths :
          /\ IsManagerAt(p)
          /\ UnitAt(p).strategy = "sequential"
          /\ Len(UnitAt(p).children) >= 2
          /\ Len(EventsAt(Append(p, 1))) >= 3
          /\ Len(EventsAt(Append(p, 2))) >= 3

\* the generators of concurrent managers that are in their fan-in loop
FanInFrames ==
    UNION { { tasks[t].stack[d] : d \in 1..Len(tasks[t].stack) } : t \in DOMAIN tasks }

\* remaining counts the children whose sentinel was not taken off the queue:
\* the pumps still running and the sentinels still queued
FanInAccounting(f) ==
    LET pumps == {Append(f.path, k) : k \in 1..Len(f.unit.children)}
        sentinels == SelectSeq(f.queue, LAMBDA item : item.sentinel)
    IN  /\ pumps \subseteq DOMAIN tasks
        /\ f.remaining = Cardinality({t \in pumps : tasks[t].status = "running"})
                             + Len(sentinels)
        /\ f.remaining = 0 => f.queue = <<>>

EachOnce ==
    \A o \in produced : Cardinality({k \in 1..Len(out) : out[k].origin = o}) = 1

\* a run that has built its hierarchy ends
Terminates == (run.status = "running" /\ tm.built) ~> Finished

\* C5: under every interleaving of the pump tasks the fan-in loop ends after
\* one sentinel per child, the run terminates, and the consumer has seen
\* every event the children produced exactly once
C5_ConcurrentCompletion ==
    /\ [](\A f \in FanInFrames : f.pc = "fanin" => FanInAccounting(f))
    /\ [](run.status = "done" => EachOnce)
    /\ Terminates

C5_Witness ==
    /\ run.status = "done"
    /\ \E p \in TreePaths :
          /\ IsManagerAt(p)
          /\ UnitAt(p).strategy = "concurrent"
          /\ Len(UnitAt(p).children) >= 2
          /\ Len(EventsAt(Append(p, 1))) > Len(EventsAt(Append(p, 2))) + 1
          /\ \E k \in 1..(Len(out) - 2) :
                /\ out[k].origin.path = Append(p, 2)
                /\ out[k + 1].origin.path = Append(p, 1)
                /\ out[k + 2].origin.path = Append(p, 2)

\* the ids of the managers above position p, the nearest one first
AncestorsInnermostFirst(p) ==
    [i \in 1..(Len(p) - 1) |-> UnitAt(SubSeq(p, 1, Len(p) - i)).id]

\* the ids of the managers above position p, the root first
AncestorsOutermostFirst(p) ==
    [i \in 1..(Len(p) - 1) |-> UnitAt(SubSeq(p, 1, i)).id]

\* the events of agents two managers below a director
TwoDeep ==
    { k \in 1..Len(out) :
        /\ Len(out[k].origin.path) = 3
        /\ RootUnit.kind = "teamDirector"
        /\ UnitAt(out[k].origin.path).kind = "agent" }

\* C6 as stated: an event of AgentX under Director -> ManagerA carries
\* lineage <<director, managerA>> and AgentX's id as unitId
C6_LineageOutermostFirst ==
    \A k \in TwoDeep :
        /\ out[k].context.unitId = UnitAt(out[k].origin.path).id
        /\ out[k].context.lineage = AncestorsOutermostFirst(out[k].origin.path)

\* C6: every event a unit produced reaches the consumer with that unit's id
\* as unitId and with the ids of the managers above the unit as lineage,
\* the nearest manager first: <<managerA, director>> for AgentX under
\* Director -> ManagerA
C6_LineageInnermostFirst ==
    \A k \in 1..Len(out) :
        Len(out[k].origin.path) >= 1 =>
            /\ out[k].context.unitId = UnitAt(out[k].origin.path).id
            /\ out[k].context.lineage = AncestorsInnermostFirst(out[k].origin.path)

C6_Witness ==
    \E k \in TwoDeep :
        /\ out[k].type = "text"
        /\ Len(out[k].context.lineage) = 2
        /\ out[k].context.lineage[1] # out[k].context.lineage[2]

\* C7: a target that is neither "team" nor a built unit yields exactly the
\* start notice, one error naming the target, and the complete notice
C7_UnknownTarget ==
    (Finished /\ run.target # "team" /\ run.target \notin DOMAIN tm.execution_units) =>
        /\ Len(out) = 3
        /\ IsStart(out[1])
        /\ out[2].type = "error"
        /\ out[2].data.message = <<"Target", run.target, "not found">>
        /\ IsComplete(out[3])

\* the positions of the managers without children
EmptyManagers == {p \in TreePaths : IsManagerAt(p) /\ Len(UnitAt(p).children) = 0}

\* C8 as stated: an empty manager produces one error naming it, then its
\* finished coordination notice, and nothing else
C8_EmptyTeamThenFinished ==
    run.status = "done" =>
        \A p \in EmptyManagers :
            LET evs == EventsAt(p)
            IN  /\ Len(evs) = 2
                /\ Says(evs[1], "error", "has no assigned team members")
                /\ evs[1].data.message[1] = UnitAt(p).label
                /\ Says(evs[2], "notice", "finished coordination")

\* C8: an empty manager produces its coordinating notice, then one error
\* naming it, and nothing else: no finished coordination notice follows
C8_EmptyTeamStops ==
    \A p \in EmptyManagers :
        LET evs == EventsAt(p)
        IN  /\ Len(evs) <= 2
            /\ run.status = "done" => Len(evs) = 2
            /\ Len(evs) >= 1 => Says(evs[1], "notice", "coordinating")
            /\ Len(evs) = 2 =>
                  /\ Says(evs[2], "error", "has no assigned team members")
                  /\ evs[2].data.message[1] = UnitAt(p).label
                  /\ evs[2].context.unitId = UnitAt(p).id

C8_Witness ==
    /\ run.status = "done"
    /\ \E p \in EmptyManagers : Len(p) = 2 /\ Len(EventsAt(p)) = 2

\* node ids of the graph by kind, in declaration order
GraphIds(kinds) ==
    LET nodes == SelectSeq(graph.nodes, LAMBDA n : n.kind \in kinds)
    IN  [i \in 1..Len(nodes) |-> nodes[i].id]

\* no director node is declared, or the declared one has no edge to an
\* agent or a manager
NoDeclaredChildren ==
    \/ GraphIds({"teamDirector"}) = <<>>
    \/ ~\E i \in 1..Len(graph.edges) :
           /\ graph.edges[i].source = GraphIds({"teamDirector"})[1]
           /\ graph.edges[i].target \in Range(GraphIds({"agent", "teamManager"}))

\* the managers no other manager delegates to
RootManagers ==
    SelectSeq(GraphIds({"teamManager"}),
              LAMBDA m : ~\E e \in ManagerEdges : e[2] = m)

FirstNonEmpty ==
    IF RootManagers # <<>> THEN RootManagers
    ELSE IF GraphIds({"teamManager"}) # <<>> THEN GraphIds({"teamManager"})
    ELSE GraphIds({"agent"})

BuiltOf(ids) ==
    SelectSeq(ids, LAMBDA id : id \in DOMAIN tm.agent_units \cup DOMAIN tm.manager_units)

AgentsOnly ==
    /\ GraphIds({"teamManager", "teamDirector"}) = <<>>
    /\ GraphIds({"agent"}) # <<>>

\* the consumer saw agent a start and finish
Executed(a) ==
    \E j, k \in 1..Len(out) :
        /\ j < k
        /\ out[j].context.unitId = a /\ Says(out[j], "notice", "starting execution")
        /\ out[k].context.unitId = a /\ Says(out[k], "notice", "finished")

\* C10: without declared director children the director's children are the
\* built units of the first non-empty of root managers, all managers, all
\* agents; on a graph of agents only a team run executes every built agent
\* between the start and the complete notice
C10_DirectorFallback ==
    /\ (tm.built /\ NoDeclaredChildren) =>
          IF BuiltOf(FirstNonEmpty) = <<>> THEN tm.director_unit.id = None
          ELSE /\ tm.director_unit.id # None
               /\ tm.director_unit.children = BuiltOf(FirstNonEmpty)
    /\ AgentsOnly =>
          /\ run.status # "raised"
          /\ (run.status = "done" /\ run.target = "team") =>
                /\ IsStart(out[1])
                /\ IsComplete(Last(out))
                /\ \A a \in DOMAIN tm.agent_units : Executed(a)

----------------------------------------------------------------------------
(* Properties of the resolver: what build() raises, edge directions, *)
(* factory calls                                                      *)

EdgeBetween(source, target) ==
    \E i \in 1..Len(graph.edges) :
        graph.edges[i].source = source /\ graph.edges[i].target = target

BuiltUnitIds == DOMAIN tm.agent_units \cup DOMAIN tm.manager_units

Occurrences(s, x) == Cardinality({i \in 1..Len(s) : s[i] = x})

\* C11: build() raises only on a graph with a cycle among its managers, and
\* a tool or an agent whose construction fails is left out of the caches
C11_RaisesOnlyForCycle ==
    /\ \A i \in 1..Len(calls) : calls[i].err.kind # "none" => HasManagerCycle
    /\ tm.built =>
          /\ \A t \in tm.tools : build_tool(env, t) = "ok"
          /\ \A a \in DOMAIN tm.agent_units : create_agent(env, a) # "raise"

\* C12: the children of a built manager M are exactly the built agents and
\* managers X with an edge from X to M
C12_ChildPointsAtParent ==
    \A M \in DOMAIN tm.manager_units :
        Range(tm.manager_units[M].children) =
            {X \in BuiltUnitIds : EdgeBetween(X, M)}

\* C13: the tools handed to the agent factory for a built agent A are exactly
\* the built tools T with an edge from T to A
C13_ToolPointsAtAgent ==
    \A A \in DOMAIN tm.agent_units :
        Range(tm.agent_units[A].tools) = {T \in tm.tools : EdgeBetween(T, A)}

\* C14: over all build() calls on the instance the tool factory is invoked at
\* most once per tool node and the agent factory at most once per agent node
C14_FactoriesOncePerId ==
    /\ \A t \in Range(tm.toolCalls) : Occurrences(tm.toolCalls, t) <= 1
    /\ \A a \in Range(tm.agentCalls) : Occurrences(tm.agentCalls, a) <= 1

----------------------------------------------------------------------------
(* Properties of the runs: event shape, targeted runs, empty hierarchies *)

EventTypes == {"notice", "text", "tool_call", "error"}

UnitKinds == {"agent", "teamManager", "teamDirector"}

\* C15: every event the consumer receives has one of the four types and a
\* context with unitId, unitLabel and a unitKind of the three unit kinds
C15_EventShape ==
    \A k \in 1..Len(out) :
        /\ out[k].type \in EventTypes
        /\ out[k].context.unitId # None
        /\ out[k].context.unitLabel # None
        /\ out[k].context.unitKind \in UnitKinds

\* the run was asked for one built unit by its id
TargetedRun ==
    /\ run.status \in {"running", "done"}
    /\ run.target # "team"
    /\ tm.built
    /\ run.target \in DOMAIN tm.execution_units

\* C16: a run targeted at a built unit yields the start notice, then the
\* events of that unit and of its descendants only, each with the lineage of
\* the managers from the target downwards, then the complete notice; at the
\* end the target's stream is there in full
C16_TargetOnly ==
    TargetedRun =>
        /\ \A k \in 1..Len(out) :
              IF out[k].origin.path = <<>>
              THEN \/ k = 1 /\ IsStart(out[k])
                   \/ k = Len(out) /\ k > 1 /\ IsComplete(out[k])
              ELSE /\ k > 1
                   /\ out[k].origin.path \in TreePaths
                   /\ out[k].context.unitId = UnitAt(out[k].origin.path).id
                   /\ out[k].context.lineage =
                          AncestorsInnermostFirst(out[k].origin.path)
        /\ Len(out) >= 2 => out[2].origin = [path |-> <<1>>, n |-> 1]
        /\ run.status = "done" =>
              /\ Len(out) >= 4
              /\ IsComplete(Last(out))
              /\ out[Len(out) - 1].origin.path = <<1>>
              /\ IF IsManagerAt(<<1>>) THEN ManagerRanToCompletion(<<1>>)
                 ELSE AgentRanToCompletion(<<1>>)
              /\ produced = {out[k].origin : k \in 1..Len(out)}
              /\ EachOnce

C16_Witness ==
    /\ TargetedRun
    /\ run.status = "done"
    /\ run.target \in DOMAIN tm.manager_units
    /\ Len(tm.manager_units[run.target].children) >= 1
    /\ \E M \in DOMAIN tm.manager_units :
          run.target \in Range(tm.manager_units[M].children)
    /\ tm.director_unit.id # None
    /\ \E k \in 1..Len(out) : out[k].context.lineage = <<run.target>>

\* C17: a team run on a hierarchy without any agent or manager unit yields
\* the start notice, the error "No agents or managers available" and the
\* complete notice, and nothing else
C17_NothingToRun ==
    (run.status = "done" /\ run.target = "team" /\ BuiltUnitIds = {}) =>
        /\ Len(out) = 3
        /\ IsStart(out[1])
        /\ out[2].type = "error"
        /\ out[2].data.message = <<"No agents or managers available">>
        /\ IsComplete(out[3])

----------------------------------------------------------------------------
(* Properties of a build that raised *)

CycleRaised == \E i \in 1..Len(calls) : calls[i].err.kind = "cycle"

\* C20: once build() has raised the cycle error the instance is never marked
\* built, every later build() raises the cycle error again, and a run on the
\* instance delivers no event of an agent or manager unit
C20_CycleLeavesNothingRunnable ==
    CycleRaised =>
        /\ ~tm.built
        /\ \A i, j \in 1..Len(calls) :
              (i <= j /\ calls[i].err.kind = "cycle") => calls[j].err.kind = "cycle"
        /\ run.status # "done"
        /\ \A k \in 1..Len(out) :
              /\ out[k].origin.path = <<>>
              /\ out[k].context.unitId = None
        /\ produced \subseteq {[path |-> <<>>, n |-> 1]}

C20_Witness ==
    /\ Len(calls) = 2
    /\ calls[1].err.kind = "cycle"
    /\ calls[2].err.kind = "cycle"
    /\ run.status = "raised"
    /\ DOMAIN tm.manager_units # {}
    /\ DOMAIN tm.agent_units # {}
    /\ Len(out) = 1

----------------------------------------------------------------------------
(* Properties of a run the consumer abandons *)

\* the frame of the concurrent manager that created pump task t
OwnerFrame(t) == tasks[tasks[t].stack[1].owner].stack[tasks[t].stack[1].ownerDepth]

\* the manager's run_stream generator has ended
RunStreamFinished(f) ==
    f.pc \in {"seq_closing", "launch_closing", "fanin_closing", "finalizing",
              "closed", "unwound"}

\* C18: when the consumer cancels or closes a run, no pump task of a
\* concurrent manager is still running or still to be cancelled once that
\* manager's run_stream generator has finished
C18_NoTaskOutlivesParent ==
    \A t \in DOMAIN tasks \ {MainTask} :
        RunStreamFinished(OwnerFrame(t)) => tasks[t].status = "done"

----------------------------------------------------------------------------
(* Properties of build() calls in flight together *)

----------------------------------------------------------------------------
(* Properties of the units' streams *)

IsEmptyTeamError(ev) == Says(ev, "error", "has no assigned team members")

\* C21: whatever its strategy, a manager without children emits the error
\* "<label> has no assigned team members" as its last event: the manager
\* creates no third event, the consumer sees nothing of it after the error,
\* and a manager with children never emits that error
C21_EmptyManagerTerminal ==
    \A p \in TreePaths :
        IsManagerAt(p) =>
            LET evs == EventsAt(p)
                empty == Len(UnitAt(p).children) = 0
            IN  /\ \A k \in 1..Len(evs) :
                      IsEmptyTeamError(evs[k]) =>
                          /\ empty
                          /\ k = Len(evs)
                          /\ evs[k].data.message[1] = UnitAt(p).label
                /\ empty => \A o \in produced : o.path = p => o.n <= 2
                /\ (empty /\ run.status = "done") =>
                      /\ Len(evs) = 2
                      /\ IsEmptyTeamError(evs[2])

C21_Witness ==
    /\ run.status = "done"
    /\ \E p, q \in EmptyManagers :
          /\ UnitAt(p).strategy = "concurrent"
          /\ UnitAt(q).strategy \notin {"concurrent", "sequential", "sequence"}
          /\ IsEmptyTeamError(Last(EventsAt(p)))
          /\ IsEmptyTeamError(Last(EventsAt(q)))

----------------------------------------------------------------------------
(* Properties of the orchestrator's copy of the graph *)

\* C22: build() and run_stream leave the nodes map and the edge sequence of
\* the orchestrator exactly as TeamManager.__init__ made them from the graph
C22_GraphReadOnly ==
    /\ tm.nodes = NodesMap(graph)
    /\ tm.edges = graph.edges

----------------------------------------------------------------------------
(* Properties of a team run without a director *)

NoDirectorRun ==
    /\ run.status \in {"running", "done"}
    /\ run.target = "team"
    /\ tm.built
    /\ tm.director_unit.id = None

\* the events of the i-th unit of the fallback and of its descendants
EventsUnder(i) ==
    SelectSeq(out, LAMBDA ev : Len(ev.origin.path) >= 1 /\ ev.origin.path[1] = i)

IsNothingToRun(ev) ==
    ev.type = "error" /\ ev.data.message = <<"No agents or managers available">>

\* the i-th unit of the fallback ran from its first to its last event
RanInFull(i) ==
    LET evs == SelectSeq(out, LAMBDA ev : ev.origin.path = <<i>>)
    IN  /\ Len(evs) >= 2
        /\ EventsUnder(i)[1] = evs[1]
        /\ Last(EventsUnder(i)) = Last(evs)
        /\ \/ Says(evs[1], "notice", "starting execution") /\ Says(Last(evs), "notice", "finished")
           \/ Says(evs[1], "notice", "coordinating")
                  /\ \/ Says(Last(evs), "notice", "finished coordination")
                     \/ IsEmptyTeamError(Last(evs))

\* C23: a team run without a director runs the built units of the first
\* non-empty of root managers, all managers, all agents, one whole stream
\* after the other in that order, and yields the error "No agents or
\* managers available" only when no unit yielded an event
C23_FallbackInTurn ==
    NoDirectorRun =>
        LET ids == FirstNonEmpty
            unitEvents == SelectSeq(out, LAMBDA ev : Len(ev.origin.path) >= 1)
        IN  /\ \A k \in 1..Len(unitEvents) :
                  /\ unitEvents[k].origin.path[1] \in 1..Len(ids)
                  /\ Len(unitEvents[k].origin.path) = 1 =>
                        unitEvents[k].context.unitId = ids[unitEvents[k].origin.path[1]]
                  /\ k < Len(unitEvents) =>
                        unitEvents[k].origin.path[1] <= unitEvents[k + 1].origin.path[1]
            /\ \A k \in 1..Len(out) : IsNothingToRun(out[k]) => unitEvents = <<>>
            /\ run.status = "done" =>
                  /\ \A i \in 1..Len(ids) :
                        IF ids[i] \in BuiltUnitIds THEN RanInFull(i)
                        ELSE EventsUnder(i) = <<>>
                  /\ (\E k \in 1..Len(out) : IsNothingToRun(out[k])) <=> BuiltOf(ids) = <<>>
                  /\ produced = {out[k].origin : k \in 1..Len(out)}

C23_Witness ==
    /\ NoDirectorRun
    /\ run.status = "done"
    /\ BuiltUnitIds # {}
    /\ Len(BuiltOf(FirstNonEmpty)) >= 2
    /\ \E i, j \in 1..Len(FirstNonEmpty) :
          /\ i < j
          /\ Len(EventsUnder(i)) >= 3
          /\ Len(EventsUnder(j)) >= 3

----------------------------------------------------------------------------
(* Properties of the strategy dispatch *)

IsUnrecognizedNotice(ev) == Says(ev, "notice", "does not recognize")

\* the managers of the execution tree that have children
Teams == {p \in TreePaths : IsManagerAt(p) /\ Len(UnitAt(p).children) > 0}

\* events of the manager at p and of the units below it, as the consumer
\* saw them
TeamEvents(p) ==
    SelectSeq(out, LAMBDA ev : ev.origin.path = p \/ IsUnder(p, ev.origin.path))

\* where an event stands in a sequential run that announced its default
\* first: coordinating, the notice, then delegation and stream per child
DefaultedSlot(p, ev) ==
    IF ev.origin.path = p
    THEN (IF ev.origin.n <= 2 THEN ev.origin.n - 2 ELSE 2 * (ev.origin.n - 2))
    ELSE 2 * ev.origin.path[Len(p) + 1] + 1

\* the own events of the manager at p are those of _run_sequential
DelegatesInTurn(p, first) ==
    LET evs == EventsAt(p)
        n == Len(UnitAt(p).children)
    IN  /\ Len(evs) = first + n
        /\ \A i \in 1..n :
              /\ Says(evs[first - 1 + i], "notice", "delegating to")
              /\ evs[first - 1 + i].data.message[3] =
                     UnitOf(tm, UnitAt(p).children[i]).label
        /\ Says(Last(evs), "notice", "finished coordination")

\* C24 as stated: the notice is emitted exactly for the strategies other
\* than sequential and concurrent
C24_OnlyTwoRecognized ==
    run.status = "done" =>
        \A p \in Teams :
            (\E k \in 1..Len(EventsAt(p)) : IsUnrecognizedNotice(EventsAt(p)[k]))
                <=> UnitAt(p).strategy \notin {"sequential", "concurrent"}

\* C24: a manager with children whose strategy, lower-cased, is none of
\* sequential, sequence, concurrent emits the notice once, right after its
\* coordinating notice, and then runs its children as the sequential
\* strategy does; for those three strategies it emits no such notice
C24_UnrecognizedDefaultsToSequential ==
    \A p \in Teams :
        LET evs == EventsAt(p)
            strategy == UnitAt(p).strategy
        IN  IF strategy \in {"sequential", "sequence", "concurrent"}
            THEN /\ \A k \in 1..Len(evs) : ~IsUnrecognizedNotice(evs[k])
                 /\ (run.status = "done" /\ strategy = "sequence") => DelegatesInTurn(p, 2)
            ELSE /\ \A k \in 1..Len(evs) : IsUnrecognizedNotice(evs[k]) <=> k = 2
                 /\ Len(evs) >= 2 => evs[2].data.message[3] = strategy
                 /\ \A k \in 1..(Len(TeamEvents(p)) - 1) :
                       /\ DefaultedSlot(p, TeamEvents(p)[k])
                              <= DefaultedSlot(p, TeamEvents(p)[k + 1])
                       /\ TeamEvents(p)[k].origin.path = TeamEvents(p)[k + 1].origin.path =>
                              TeamEvents(p)[k].origin.n < TeamEvents(p)[k + 1].origin.n
                 /\ run.status = "done" => DelegatesInTurn(p, 3)

C24_Witness ==
    /\ run.status = "done"
    /\ \E p \in Teams :
          /\ UnitAt(p).strategy = "round_robin"
          /\ Len(UnitAt(p).children) = 2
          /\ Len(EventsAt(p)) = 5
          /\ Len(EventsAt(Append(p, 1))) >= 3
          /\ Len(EventsAt(Append(p, 2))) >= 3

----------------------------------------------------------------------------
(* Properties of the agent streams *)

\* the agent generator on top of task t moves on to its next update
TakesNextUpdate(t) ==
    /\ t \in DOMAIN tasks /\ t \in DOMAIN tasks'
    /\ Len(tasks'[t].stack) = Len(tasks[t].stack)
    /\ Top(t).gen = "agent"
    /\ Top(t).pc = "stream"
    /\ tasks'[t].stack[Len(tasks[t].stack)].i = Top(t).i + 1

\* the plain updates (neither delta nor tool_calls) of the agent at p
PlainUpdates(p) ==
    SelectSeq(env.script[UnitAt(p).id].updates,
              LAMBDA u : ~u.hasDelta /\ ~u.hasToolCalls)

\* C25: an agent unit yields at least one event for every update of its
\* capability's stream, and for an update with neither field a text event
\* carrying the update's string form
C25_NoUpdateDropped ==
    /\ [][\A t \in DOMAIN tasks :
              TakesNextUpdate(t) =>
                  tasks'[t].stack[Len(tasks[t].stack)].n = Top(t).n + 1]_vars
    /\ [](run.status = "done" =>
             \A p \in TreePaths :
                 ~IsManagerAt(p) =>
                     Len(SelectSeq(EventsAt(p),
                                   LAMBDA ev : ev.type = "text"
                                               /\ ev.data = [delta |-> "<update>"]))
                         = Len(PlainUpdates(p)))

----------------------------------------------------------------------------
(* Properties of the edge lookups *)

NoRepeats(s) == \A i, j \in 1..Len(s) : s[i] = s[j] => i = j

\* C26: however often the edge list names a pair, a manager has each child
\* once, an agent each tool once, and a run of the manager runs each child
\* once
C26_DuplicateEdgesOnce ==
    /\ \A M \in DOMAIN tm.manager_units : NoRepeats(tm.manager_units[M].children)
    /\ \A A \in DOMAIN tm.agent_units : NoRepeats(tm.agent_units[A].tools)
    /\ tm.director_unit.id # None => NoRepeats(tm.director_unit.children)
    /\ \A p, q \in TreePaths :
          (Len(p) = Len(q) /\ Len(p) >= 2 /\ p # q
              /\ SubSeq(p, 1, Len(p) - 1) = SubSeq(q, 1, Len(q) - 1))
              => UnitAt(p).id # UnitAt(q).id

----------------------------------------------------------------------------
(* Properties of the concurrent strategy *)

\* the managers of the execution tree that run their children concurrently
ConcurrentTeams == {p \in Teams : UnitAt(p).strategy = "concurrent"}

\* the generators of concurrent managers that wait in their fan-in loop
Waiting == {f \in FanInFrames : f.gen = "manager" /\ f.pc = "fanin"}

\* the events in the queue of a fan-in loop, oldest first
Queued(f) ==
    LET items == SelectSeq(f.queue, LAMBDA item : ~item.sentinel)
    IN  [k \in 1..Len(items) |-> items[k].payload]

\* earlier events of one generator stand before its later ones
InOrder(evs) ==
    \A j, k \in 1..Len(evs) :
        (j < k /\ evs[j].origin.path = evs[k].origin.path)
            => evs[j].origin.n < evs[k].origin.n

\* every event of the first sequence is older than the events the same
\* generator has in the second
Before(first, second) ==
    \A j \in 1..Len(first), k \in 1..Len(second) :
        first[j].origin.path = second[k].origin.path
            => first[j].origin.n < second[k].origin.n

IsLaunchNotice(ev) == Says(ev, "notice", "launching")

\* C27: under every interleaving, the events a generator below a concurrent
\* manager created pass through the queues and reach the consumer in the
\* order it created them, and every launching notice of the manager
\* precedes the first event of a child
C27_ChildOrderKept ==
    /\ InOrder(SelectSeq(out, LAMBDA ev :
                   \E p \in ConcurrentTeams : IsUnder(p, ev.origin.path)))
    /\ \A f \in Waiting :
          /\ InOrder(Queued(f))
          /\ Before(out, Queued(f))
          /\ \A g \in Waiting : IsUnder(g.path, f.path) => Before(Queued(g), Queued(f))
    /\ \A p \in ConcurrentTeams :
          /\ \A j, k \in 1..Len(out) :
                (IsUnder(p, out[j].origin.path) /\ out[k].origin.path = p
                    /\ IsLaunchNotice(out[k])) => k < j
          /\ \A j \in 1..Len(out) :
                IsUnder(p, out[j].origin.path) =>
                    Len(SelectSeq(EventsAt(p), IsLaunchNotice)) = Len(UnitAt(p).children)

C27_Witness ==
    /\ run.status = "done"
    /\ \E p \in ConcurrentTeams :
          /\ Len(UnitAt(p).children) = 2
          /\ \E k \in 1..(Len(out) - 2) :
                /\ out[k].origin.path = Append(p, 1)
                /\ out[k + 1].origin.path = Append(p, 2)
                /\ out[k + 2].origin.path = Append(p, 1)
                /\ out[k].type = "text"
                /\ out[k + 2].type = "text"

----------------------------------------------------------------------------
(* Properties of the built hierarchy *)

\* the managers that are a child of a manager unit
ManagerChildren ==
    UNION { Range(tm.manager_units[M].children) \cap DOMAIN tm.manager_units :
               M \in DOMAIN tm.manager_units }

\* C28: after a successful build root_manager_ids lists, in declaration
\* order and once each, exactly the manager nodes that are not a child of a
\* manager unit: the incoming-edge index and the children the managers were
\* built with agree
C28_RootsAreTheParentless ==
    tm.built =>
        /\ Range(tm.root_manager_ids) = Range(tm.manager_node_ids) \ ManagerChildren
        /\ tm.root_manager_ids =
               SelectSeq(tm.manager_node_ids, LAMBDA m : m \notin ManagerChildren)
        /\ DOMAIN tm.manager_units = Range(tm.manager_node_ids)

C28_Witness ==
    /\ tm.built
    /\ ManagerChildren # {}
    /\ \E r \in Range(tm.root_manager_ids) :
          /\ r \in DOMAIN tm.incoming_index
          /\ Len(tm.manager_units[r].children) > 0
    /\ Len(tm.root_manager_ids) >= 2

\* C29: on a graph without a cycle among its managers every build()
\* completes, none reports a cycle, and afterwards every manager node has one
\* unit, which is in the children of each manager with an edge to it; a
\* cycle is reported only on a graph that has one
C29_AcyclicGraphBuilds ==
    /\ \A i \in 1..Len(calls) : calls[i].err.kind = "cycle" => HasManagerCycle
    /\ ~HasManagerCycle =>
          /\ \A i \in 1..Len(calls) : calls[i].err.kind = "none"
          /\ Len(calls) > 0 =>
                /\ tm.built
                /\ DOMAIN tm.manager_units = Range(tm.manager_node_ids)
                /\ \A e \in ManagerEdges : e[2] \in Range(tm.manager_units[e[1]].children)

----------------------------------------------------------------------------
(* Properties of the team run: which units take part *)

\* parent -> child pairs of the built managers
Delegations ==
    UNION { {<<M, tm.manager_units[M].children[i]>> :
                i \in 1..Len(tm.manager_units[M].children)} :
            M \in DOMAIN tm.manager_units }

\* the root managers and everything they delegate to, directly or not
UnderRootManagers == ReachableFrom(Range(RootManagers), Delegations)

\* C30: on a graph with a manager and without declared director children,
\* every agent whose construction succeeds is a unit a run can target, and a
\* team run delivers events of the director, of the root managers and of
\* their descendants only: an agent outside those trees emits nothing
C30_OnlyUnderRootManagers ==
    (tm.built /\ GraphIds({"teamManager"}) # <<>> /\ NoDeclaredChildren) =>
        /\ \A a \in Range(tm.agent_node_ids) :
              create_agent(env, a) # "raise" =>
                  /\ a \in DOMAIN tm.execution_units
                  /\ tm.execution_units[a].kind = "agent"
        /\ tm.director_unit.id # None
        /\ run.target = "team" =>
              \A k \in 1..Len(out) :
                  out[k].context.unitId \in
                      {None, tm.director_unit.id} \cup UnderRootManagers

====
